---------------------------- MODULE Spec2Model ----------------------------
(***************************************************************************)
(* GitLabWorkflow.forced_workflow and GitLabWorkflow.rollback of           *)
(* plugins/gitlab-collaboration/shared/scripts/gitlab_workflow.py, as a    *)
(* state machine over a local working copy (checked-out branch, local and  *)
(* remote branches, modified tracked files, untracked files, stash stack), *)
(* the issue tracker and the metadata directory.                           *)
(*                                                                         *)
(* One action per external call of the workflow (a git process or an HTTP  *)
(* request).  A call either succeeds with git's effect or fails; a failed  *)
(* call leaves the repository as it was.  Calls whose outcome the          *)
(* repository decides (popping an empty stash, creating a branch that      *)
(* exists, deleting a branch that does not) fail there; every call may     *)
(* also fail for a reason outside the model (I/O, network, conflicts).     *)
(*                                                                         *)
(* HelperSpec, further down, applies the text helpers (branch-name         *)
(* validation, title slug, commit-prefix removal) and the operations that  *)
(* take a branch name to arguments drawn from bounded sets.                *)
(***************************************************************************)
EXTENDS Naturals, Integers, Sequences, FiniteSets, TLC

VARIABLES
    cfg,        \* the call's inputs: JSON file, GitLabWorkflow fields, remotes
    git,        \* the working copy and the remote repository
    tracker,    \* the issue tracker: issues that exist, description updates
    meta,       \* branch names that have an issue.json under issue_dir
    state,      \* the WorkflowState of this call
    locals,     \* forced_workflow's local variables that outlive one phase
    pc,         \* the position in forced_workflow / rollback
    result,     \* the WorkflowResult returned, or NoResult
    log,        \* history: every external call made, in order, with outcome
    out,        \* history: the messages of interest printed
    pre,        \* history: the repository and tracker as the call found them
    arg,        \* the arguments a helper function or operation is applied to
    ret         \* the helper applied last and what it returned

vars == <<cfg, git, tracker, meta, state, locals, pc, result, log, out, pre, arg, ret>>

(***************************************************************************)
(* Bounds and names.                                                       *)
(***************************************************************************)
\* Issues that exist in the project before the call (their iids are 1..n).
MaxPriorIssues == 1
\* Stash entries that exist before the call.
MaxPriorStash == 1

None == "none"          \* Python's None for the optional strings
NoIid == 0              \* Python's None for the optional issue_iid
\* WorkflowResult; none marks that forced_workflow has returned nothing (yet).
WorkflowResult(success, iid, branch, pushed, ai_updated, error) ==
    [none |-> FALSE, success |-> success, issue_iid |-> iid, branch_name |-> branch,
     pushed |-> pushed, ai_updated |-> ai_updated, error |-> error]

NoResult == [WorkflowResult(FALSE, NoIid, None, FALSE, FALSE, None) EXCEPT !.none = TRUE]

BaseBranch == "main"            \* base_branch / BASE_BRANCH
OtherBranch == "feature"        \* a branch that is not the base
ModifiedFiles == {"a.py", "b.py"}   \* tracked files that may be modified
UntrackedFiles == {"u.txt"}         \* files that may be untracked
PriorStashEntry == {"old.py"}       \* the content of a pre-existing stash entry
Required == {"issueCode", "title"}  \* required_fields

\* The branch name forced_workflow derives for issue iid:
\* f"{issueCode.lower()}/{issue_iid}-{sanitized_title}".
DerivedBranch(iid) ==
    IF iid = 1 THEN "vtm-1/1-add-logout"
    ELSE IF iid = 2 THEN "vtm-1/2-add-logout"
    ELSE "vtm-1/3-add-logout"

\* No helper is being applied on its own.
NoArg == [kind |-> "none", text |-> <<>>, code |-> <<>>, iid |-> NoIid]
NoRet == [fn |-> "none", val |-> <<>>]

DerivedBranches == {DerivedBranch(i) : i \in 1..(MaxPriorIssues + 1)}

(***************************************************************************)
(* WorkflowState.                                                          *)
(***************************************************************************)
\* WorkflowState(): the dataclass defaults.
NewWorkflowState ==
    [completed_steps |-> <<>>, issue_iid |-> NoIid, branch_name |-> None,
     original_branch |-> None, stashed |-> FALSE, stashed_files |-> {}]

\* Mutant: the newest step is put in front of the list.
mark_Prepend(st, step) == [st EXCEPT !.completed_steps = <<step>> \o @]

\* WorkflowState.mark
mark(st, step) == [st EXCEPT !.completed_steps = Append(@, step)]

\* WorkflowState.has
has(st, step) == \E i \in 1..Len(st.completed_steps) : st.completed_steps[i] = step

(***************************************************************************)
(* git, as the workflow uses it.  g is the repository record.              *)
(***************************************************************************)
\* The lines of `git status --porcelain`: modified tracked and untracked files.
StatusLines(g) == g.dirty \cup g.untracked

\* `git stash push -m ...`: saves the modified tracked files (not the untracked
\* ones: no -u) and cleans them; with nothing to save it exits 0 and creates
\* no entry.
GitStashPush(g) ==
    IF g.dirty = {} THEN g
    ELSE [g EXCEPT !.stash = <<g.dirty>> \o @, !.dirty = {}]

CanStashPop(g) == Len(g.stash) > 0

\* `git stash pop`: applies and drops the top entry.
GitStashPop(g) ==
    [g EXCEPT !.dirty = @ \cup Head(g.stash), !.stash = Tail(@)]

CanCheckout(g, b) == b \in g.local

\* `git checkout b`
GitCheckout(g, b) == [g EXCEPT !.branch = b]

CanCreateBranch(g, b) == b \notin g.local

\* `git checkout -b b`
GitCheckoutNew(g, b) == [g EXCEPT !.local = @ \cup {b}, !.branch = b]

\* `git push -u remote b`
GitPush(g, b) == [g EXCEPT !.remote = @ \cup {b}]

CanDeleteRemote(g, b) == b \in g.remote

\* `git push remote --delete b`
GitPushDelete(g, b) == [g EXCEPT !.remote = @ \ {b}]

CanDeleteLocal(g, b) == b \in g.local /\ g.branch # b

\* `git branch -D b`
GitBranchDelete(g, b) == [g EXCEPT !.local = @ \ {b}]


(***************************************************************************)
(* Helpers of GitLabWorkflow.                                              *)
(***************************************************************************)
Range(s) == {s[i] : i \in 1..Len(s)}

\* result.stdout.strip().split('\n') of `git remote`: never the empty list,
\* the output of a repository without remotes splits to [''].
SplitRemotes(remotes) == IF remotes = <<>> THEN <<"">> ELSE remotes

\* GitLabWorkflow.get_remote_name.  q: whether `git remote` exits 0.
\* called: whether the process was run; raised: an Exception (not a
\* CalledProcessError) leaves the function.
get_remote_name(c, q) ==
    IF c.remote_name # ""
    THEN [raised |-> FALSE, called |-> FALSE, name |-> c.remote_name]
    ELSE IF ~q
    THEN [raised |-> TRUE, called |-> TRUE, name |-> ""]
    ELSE LET remotes == SplitRemotes(c.remotes)
         IN  [raised |-> FALSE, called |-> TRUE,
              name |-> IF "origin" \in Range(remotes) THEN "origin"
                       ELSE remotes[1]]

\* GitLabWorkflow.is_working_directory_clean.  q: whether `git status` exits 0.
is_working_directory_clean(g, q) == IF q THEN StatusLines(g) = {} ELSE FALSE

\* GitLabWorkflow.get_dirty_files.  q: whether `git status` exits 0.
get_dirty_files(g, q) == IF q THEN StatusLines(g) ELSE {}

\* One external call in the history: what was run, whether it succeeded, which
\* part of the workflow ran it, and the branch that was checked out when the
\* step that ran it began.
Call(act, ok, by) == [act |-> act, ok |-> ok, by |-> by, on |-> git.branch]

(***************************************************************************)
(* The states a call of forced_workflow can start in.                      *)
(***************************************************************************)
RemoteLists == {<<>>, <<"origin">>, <<"gitlab">>}

Configs ==
    {c \in [json_exists : BOOLEAN, fields : SUBSET Required, is_repo : BOOLEAN,
            remote_name : {"", "gitlab"}, remotes : RemoteLists,
            with_base : SUBSET {"origin", "gitlab"}, issue_dir : BOOLEAN] :
        /\ c.with_base \in {{}, Range(c.remotes)}
        /\ ~c.json_exists => c.fields = {}
        /\ ~c.is_repo => c.remotes = <<>>}

StashStacks == {[i \in 1..n |-> PriorStashEntry] : n \in 0..MaxPriorStash}

Repositories ==
    {g \in [branch : {BaseBranch, OtherBranch},
            local : {{BaseBranch, OtherBranch} \cup s : s \in SUBSET DerivedBranches},
            remote : SUBSET DerivedBranches,
            dirty : {{}, ModifiedFiles},
            untracked : SUBSET UntrackedFiles,
            stash : StashStacks] :
        /\ g.remote = g.local \cap DerivedBranches
        /\ Cardinality(g.remote) <= 1}

Trackers == {[count |-> n, described |-> {}, closed |-> {}] : n \in 0..MaxPriorIssues}

Init ==
    /\ cfg \in Configs
    /\ git \in Repositories
    /\ tracker \in Trackers
    /\ git.local \cap DerivedBranches \subseteq {DerivedBranch(tracker.count + 1)}
    /\ meta = {}
    /\ state = NewWorkflowState
    /\ locals = [remote_name |-> "", issue_iid |-> NoIid, is_dirty |-> FALSE,
                 dirty_files |-> {}, branch_name |-> None,
                 ai_updated |-> FALSE, error |-> None]
    /\ pc = "validate"
    /\ result = NoResult
    /\ log = <<>>
    /\ out = <<>>
    /\ pre = [git |-> git, tracker |-> tracker]
    /\ arg = NoArg
    /\ ret = NoRet

(***************************************************************************)
(* forced_workflow: the try block.                                         *)
(***************************************************************************)
\* Mutant: the stash is popped before the original branch is checked out.
RollbackSteps_PopFirst ==
    <<"rb_restash", "rb_delete_remote", "rb_delete_local", "rb_pop_stash",
      "rb_checkout_original">>

\* The blocks of rollback, in the order the function runs them.
RollbackSteps ==
    <<"rb_restash", "rb_delete_remote", "rb_delete_local", "rb_checkout_original",
      "rb_pop_stash">>

\* Mutant: the branch is created before the base is pulled.
AfterPhase_BranchBeforePull(p) ==
    CASE p = "validate" -> "create_issue"
      [] p = "create_issue" -> "status"
      [] p = "dirty_files" -> "stash"
      [] p = "stash" -> "current_branch"
      [] p = "current_branch" -> "checkout_base"
      [] p = "checkout_base" -> "create_branch"
      [] p = "create_branch" -> "pull"
      [] p = "pull" -> "push"
      [] p = "stash_pop" -> "update_issue"
      [] p = "update_issue" -> "save_json"
      [] p = "save_json" -> "done"

\* The phase that follows phase p when p returned without an exception, for
\* the phases with one successor.
AfterPhase(p) ==
    CASE p = "validate" -> "create_issue"
      [] p = "create_issue" -> "status"
      [] p = "dirty_files" -> "stash"
      [] p = "stash" -> "current_branch"
      [] p = "current_branch" -> "checkout_base"
      [] p = "checkout_base" -> "pull"
      [] p = "pull" -> "create_branch"
      [] p = "create_branch" -> "push"
      [] p = "stash_pop" -> "update_issue"
      [] p = "update_issue" -> "save_json"
      [] p = "save_json" -> "done"

\* An exception reaches `except Exception as e`: the handler prints the error
\* and calls self.rollback(state).
Raise(e) ==
    /\ locals' = [locals EXCEPT !.error = e]
    /\ pc' = RollbackSteps[1]
    /\ out' = Append(out, "rolling_back")

\* Mutant: the remote base branch is not verified.
ValidationError_NoVerify(c, r, q) ==
    IF ~c.json_exists THEN "JSON file not found"
    ELSE IF ~(Required \subseteq c.fields) THEN "Required field missing in JSON"
    ELSE IF ~c.is_repo THEN "Not in a git repository"
    ELSE IF r.raised THEN "Failed to get git remote"
    ELSE None

\* Phase 0: pre-flight validation.  None of its calls changes the repository.
ValidationError(c, r, q) ==
    IF ~c.json_exists THEN "JSON file not found"
    ELSE IF ~(Required \subseteq c.fields) THEN "Required field missing in JSON"
    ELSE IF ~c.is_repo THEN "Not in a git repository"
    ELSE IF r.raised THEN "Failed to get git remote"
    ELSE IF r.name \notin c.with_base THEN "Remote branch not found"
    ELSE None

\* The processes validation runs before it fails with e (or passes).
ValidationCalls(c, r, e) ==
    IF e \in {"JSON file not found", "Required field missing in JSON"} THEN <<>>
    ELSE <<Call("rev_parse_git_dir", c.is_repo, "validate")>>
         \o (IF c.is_repo /\ r.called
             THEN <<Call("git_remote", ~r.raised, "validate")>> ELSE <<>>)
         \o (IF c.is_repo /\ ~r.raised
             THEN <<Call("verify_remote_base", r.name \in c.with_base, "validate")>>
             ELSE <<>>)

Validate ==
    /\ pc = "validate"
    /\ \E q \in BOOLEAN :
        LET r == get_remote_name(cfg, q)
            e == ValidationError(cfg, r, q)
        IN  /\ log' = log \o ValidationCalls(cfg, r, e)
            /\ state' = IF cfg.json_exists /\ Required \subseteq cfg.fields
                        THEN mark(state, "json_loaded") ELSE state
            /\ IF e = None
               THEN /\ locals' = [locals EXCEPT !.remote_name = r.name]
                    /\ pc' = AfterPhase("validate")
                    /\ out' = out
               ELSE Raise(e)
    /\ UNCHANGED <<arg, ret, cfg, git, tracker, meta, result, pre>>

\* Phase 1: self.create_issue (HTTP POST).
CreateIssue ==
    /\ pc = "create_issue"
    /\ \E ok \in BOOLEAN :
        /\ log' = Append(log, Call("create_issue", ok, "forward"))
        /\ IF ok
           THEN LET iid == tracker.count + 1
                IN  /\ tracker' = [tracker EXCEPT !.count = iid]
                    /\ state' = mark([state EXCEPT !.issue_iid = iid], "issue_created")
                    /\ locals' = [locals EXCEPT !.issue_iid = iid]
                    /\ pc' = AfterPhase("create_issue")
                    /\ out' = out
           ELSE /\ Raise("GitLab API Error")
                /\ UNCHANGED <<tracker, state>>
    /\ UNCHANGED <<arg, ret, cfg, git, meta, result, pre>>

\* `if is_dirty:` stash, `else:` go on to the checkout.
AfterStatus(is_dirty) == IF is_dirty THEN "dirty_files" ELSE "current_branch"

\* Phase 2-1: is_dirty = not self.is_working_directory_clean().  A failing
\* `git status` is caught inside the helper and reads as dirty.
CheckDirty ==
    /\ pc = "status"
    /\ \E q \in BOOLEAN :
        LET is_dirty == ~is_working_directory_clean(git, q)
        IN  /\ log' = Append(log, Call("status", q, "forward"))
            /\ locals' = [locals EXCEPT !.is_dirty = is_dirty]
            /\ pc' = AfterStatus(is_dirty)
            /\ state' = IF is_dirty THEN state ELSE [state EXCEPT !.stashed = FALSE]
    /\ UNCHANGED <<arg, ret, cfg, git, tracker, meta, result, out, pre>>

\* dirty_files = self.get_dirty_files(): a second `git status`, whose failure
\* is caught inside the helper and reads as no files.
GetDirtyFiles ==
    /\ pc = "dirty_files"
    /\ \E q \in BOOLEAN :
        /\ log' = Append(log, Call("status_files", q, "forward"))
        /\ locals' = [locals EXCEPT !.dirty_files = get_dirty_files(git, q)]
    /\ pc' = AfterPhase("dirty_files")
    /\ UNCHANGED <<arg, ret, cfg, git, tracker, meta, state, result, out, pre>>

\* Phase 2-2: git stash push -m "Auto-stash for issue #iid".
Stash ==
    /\ pc = "stash"
    /\ \E ok \in BOOLEAN :
        /\ log' = Append(log, Call("stash_push", ok, "forward"))
        /\ IF ok
           THEN /\ git' = GitStashPush(git)
                /\ state' = mark([state EXCEPT !.stashed = TRUE,
                                               !.stashed_files = locals.dirty_files],
                                 "stashed")
                /\ pc' = AfterPhase("stash")
                /\ UNCHANGED <<locals, out>>
           ELSE /\ Raise("git stash push failed")
                /\ UNCHANGED <<git, state>>
    /\ UNCHANGED <<arg, ret, cfg, tracker, meta, result, pre>>

\* Phase 2-3: state.original_branch = self.get_current_branch(); a failing
\* `git rev-parse --abbrev-ref HEAD` raises Exception.
GetOriginalBranch ==
    /\ pc = "current_branch"
    /\ \E q \in BOOLEAN :
        /\ log' = Append(log, Call("current_branch", q, "forward"))
        /\ IF q
           THEN /\ state' = [state EXCEPT !.original_branch = git.branch]
                /\ pc' = AfterPhase("current_branch")
                /\ UNCHANGED <<locals, out>>
           ELSE /\ Raise("Failed to get current branch")
                /\ state' = state
    /\ UNCHANGED <<arg, ret, cfg, git, tracker, meta, result, pre>>

\* git checkout base_branch
CheckoutBase ==
    /\ pc = "checkout_base"
    /\ \E ok \in BOOLEAN :
        /\ ok => CanCheckout(git, BaseBranch)
        /\ log' = Append(log, Call("checkout_base", ok, "forward"))
        /\ IF ok
           THEN /\ git' = GitCheckout(git, BaseBranch)
                /\ state' = mark(state, "switched_to_base")
                /\ pc' = AfterPhase("checkout_base")
                /\ UNCHANGED <<locals, out>>
           ELSE /\ Raise("git checkout failed")
                /\ UNCHANGED <<git, state>>
    /\ UNCHANGED <<arg, ret, cfg, tracker, meta, result, pre>>

\* Phase 2-4: git pull remote base_branch
Pull ==
    /\ pc = "pull"
    /\ \E ok \in BOOLEAN :
        /\ log' = Append(log, Call("pull", ok, "forward"))
        /\ IF ok
           THEN /\ state' = mark(state, "pulled_latest")
                /\ pc' = AfterPhase("pull")
                /\ UNCHANGED <<locals, out>>
           ELSE /\ Raise("git pull failed")
                /\ state' = state
    /\ UNCHANGED <<arg, ret, cfg, git, tracker, meta, result, pre>>

\* Phase 3: state.branch_name is set before `git checkout -b branch_name` runs.
CreateBranch ==
    /\ pc = "create_branch"
    /\ LET branch_name == DerivedBranch(locals.issue_iid)
           named == [state EXCEPT !.branch_name = branch_name]
       IN  \E ok \in BOOLEAN :
            /\ ok => CanCreateBranch(git, branch_name)
            /\ log' = Append(log, Call("checkout_b", ok, "forward"))
            /\ IF ok
               THEN /\ git' = GitCheckoutNew(git, branch_name)
                    /\ state' = mark(named, "branch_created")
                    /\ locals' = [locals EXCEPT !.branch_name = branch_name]
                    /\ pc' = AfterPhase("create_branch")
                    /\ out' = out
               ELSE /\ locals' = [locals EXCEPT !.branch_name = branch_name,
                                                !.error = "git checkout -b failed"]
                    /\ pc' = RollbackSteps[1]
                    /\ out' = Append(out, "rolling_back")
                    /\ state' = named
                    /\ git' = git
    /\ UNCHANGED <<arg, ret, cfg, tracker, meta, result, pre>>

\* The phase after a successful push: Phase 5 runs only `if state.stashed`.
AfterPush(st) == IF st.stashed THEN "stash_pop" ELSE "update_issue"

\* Phase 4: git push -u remote branch_name
Push ==
    /\ pc = "push"
    /\ \E ok \in BOOLEAN :
        /\ log' = Append(log, Call("push", ok, "forward"))
        /\ IF ok
           THEN /\ git' = GitPush(git, locals.branch_name)
                /\ state' = mark(state, "pushed")
                /\ pc' = AfterPush(state)
                /\ UNCHANGED <<locals, out>>
           ELSE /\ Raise("git push failed")
                /\ UNCHANGED <<git, state>>
    /\ UNCHANGED <<arg, ret, cfg, tracker, meta, result, pre>>

\* Phase 5: git stash pop
StashPop ==
    /\ pc = "stash_pop"
    /\ \E ok \in BOOLEAN :
        /\ ok => CanStashPop(git)
        /\ log' = Append(log, Call("stash_pop", ok, "forward"))
        /\ IF ok
           THEN /\ git' = GitStashPop(git)
                /\ state' = mark(state, "stash_popped")
                /\ pc' = AfterPhase("stash_pop")
                /\ UNCHANGED <<locals, out>>
           ELSE /\ Raise("git stash pop failed")
                /\ UNCHANGED <<git, state>>
    /\ UNCHANGED <<arg, ret, cfg, tracker, meta, result, pre>>

\* Phase 6: `if state.stashed and state.stashed_files`, self.update_issue
\* (HTTP PUT) with the generated summary.
UpdateIssue ==
    /\ pc = "update_issue"
    /\ IF state.stashed /\ state.stashed_files # {}
       THEN \E ok \in BOOLEAN :
            /\ log' = Append(log, Call("update_issue", ok, "forward"))
            /\ IF ok
               THEN /\ tracker' = [tracker EXCEPT !.described = @ \cup {locals.issue_iid}]
                    /\ locals' = [locals EXCEPT !.ai_updated = TRUE]
                    /\ pc' = AfterPhase("update_issue")
                    /\ out' = out
               ELSE /\ Raise("GitLab API Error")
                    /\ tracker' = tracker
       ELSE /\ pc' = AfterPhase("update_issue")
            /\ UNCHANGED <<log, tracker, locals, out>>
    /\ UNCHANGED <<arg, ret, cfg, git, meta, state, result, pre>>

\* Phase 7: self.save_issue_json (returns None without writing when issue_dir
\* is not configured; mkdir / open / json.dump raise inside the try block),
\* then the success banner and `return WorkflowResult(success=True, ...)`.
SaveIssueJson ==
    /\ pc = "save_json"
    /\ LET success == WorkflowResult(TRUE, locals.issue_iid, locals.branch_name,
                                     TRUE, locals.ai_updated, None)
       IN  IF ~cfg.issue_dir
           THEN /\ result' = success
                /\ pc' = AfterPhase("save_json")
                /\ UNCHANGED <<log, meta, locals, out>>
           ELSE \E ok \in BOOLEAN :
                /\ log' = Append(log, Call("save_json", ok, "forward"))
                /\ IF ok
                   THEN /\ meta' = meta \cup {locals.branch_name}
                        /\ result' = success
                        /\ pc' = AfterPhase("save_json")
                        /\ UNCHANGED <<locals, out>>
                   ELSE /\ Raise("issue.json could not be written")
                        /\ UNCHANGED <<meta, result>>
    /\ UNCHANGED <<arg, ret, cfg, git, tracker, state, pre>>

(***************************************************************************)
(* rollback(state): five blocks, each `if <guard>: try: ... except          *)
(* subprocess.CalledProcessError: <warning>`.                              *)
(***************************************************************************)
\* The block after block p; after the last one rollback returns.
AfterRollbackStep(p) ==
    LET i == CHOOSE k \in 1..Len(RollbackSteps) : RollbackSteps[k] = p
    IN  IF i < Len(RollbackSteps) THEN RollbackSteps[i + 1] ELSE "rb_done"

\* if state.has('stash_popped')
GuardRestash(st) == has(st, "stash_popped")

\* if state.has('pushed') and state.branch_name
GuardDeleteRemote(st) == has(st, "pushed") /\ st.branch_name # None

\* Mutant: the local branch is deleted whenever a name was derived.
GuardDeleteLocal_NameOnly(st) == st.branch_name # None

\* if state.has('branch_created') and state.branch_name
GuardDeleteLocal(st) == has(st, "branch_created") /\ st.branch_name # None

\* Mutant: the switch back is tied to the pull instead of the checkout.
GuardCheckoutOriginal_AfterPull(st) == has(st, "pulled_latest") /\ st.original_branch # None

\* if state.has('switched_to_base') and state.original_branch
GuardCheckoutOriginal(st) == has(st, "switched_to_base") /\ st.original_branch # None

\* if state.has('stashed') and not state.has('stash_popped')
GuardPopStash(st) == has(st, "stashed") /\ ~has(st, "stash_popped")

\* Step 5: git stash push -m "Rollback: re-stashing changes"
RollbackRestash ==
    /\ pc = "rb_restash"
    /\ pc' = AfterRollbackStep("rb_restash")
    /\ IF GuardRestash(state)
       THEN \E ok \in BOOLEAN :
            /\ log' = Append(log, Call("re_stash", ok, "rollback"))
            /\ git' = IF ok THEN GitStashPush(git) ELSE git
       ELSE UNCHANGED <<log, git>>
    /\ UNCHANGED <<arg, ret, cfg, tracker, meta, state, locals, result, out, pre>>

\* Step 4: git push remote --delete branch_name.  get_remote_name is called
\* inside the try; the Exception it raises is no CalledProcessError, so it
\* leaves rollback and, from the except handler, forced_workflow.
RollbackDeleteRemote ==
    /\ pc = "rb_delete_remote"
    /\ IF GuardDeleteRemote(state)
       THEN \E q, ok \in BOOLEAN :
            LET r == get_remote_name(cfg, q)
                asked == IF r.called
                         THEN <<Call("git_remote", ~r.raised, "rollback")>> ELSE <<>>
            IN  IF r.raised
                THEN /\ log' = log \o asked
                     /\ pc' = "raised"
                     /\ git' = git
                ELSE /\ ok => CanDeleteRemote(git, state.branch_name)
                     /\ log' = log \o asked \o <<Call("push_delete", ok, "rollback")>>
                     /\ git' = IF ok THEN GitPushDelete(git, state.branch_name) ELSE git
                     /\ pc' = AfterRollbackStep("rb_delete_remote")
       ELSE /\ pc' = AfterRollbackStep("rb_delete_remote")
            /\ UNCHANGED <<log, git>>
    /\ UNCHANGED <<arg, ret, cfg, tracker, meta, state, locals, result, out, pre>>

\* switch_to = state.original_branch or 'main'
SwitchTo(st) == IF st.original_branch # None THEN st.original_branch ELSE "main"

\* Step 3: if the branch is checked out, git checkout switch_to; then
\* git branch -D branch_name.  Both are in one try: a failed checkout skips
\* the deletion.  A failing get_current_branch raises Exception.
RollbackDeleteLocal ==
    /\ pc = "rb_delete_local"
    /\ IF GuardDeleteLocal(state)
       THEN \E q, co, del \in BOOLEAN :
            LET asked == <<Call("current_branch", q, "rollback")>>
                switch == git.branch = state.branch_name
                moved == IF switch THEN GitCheckout(git, SwitchTo(state)) ELSE git
            IN  IF ~q
                THEN /\ log' = log \o asked
                     /\ pc' = "raised"
                     /\ git' = git
                ELSE IF switch /\ ~co
                THEN /\ log' = log \o asked \o <<Call("checkout_switch", FALSE, "rollback")>>
                     /\ pc' = AfterRollbackStep("rb_delete_local")
                     /\ git' = git
                ELSE /\ switch => CanCheckout(git, SwitchTo(state))
                     /\ del => CanDeleteLocal(moved, state.branch_name)
                     /\ log' = log \o asked
                               \o (IF switch
                                   THEN <<Call("checkout_switch", TRUE, "rollback")>>
                                   ELSE <<>>)
                               \o <<Call("branch_D", del, "rollback")>>
                     /\ git' = IF del THEN GitBranchDelete(moved, state.branch_name)
                               ELSE moved
                     /\ pc' = AfterRollbackStep("rb_delete_local")
       ELSE /\ pc' = AfterRollbackStep("rb_delete_local")
            /\ UNCHANGED <<log, git>>
    /\ UNCHANGED <<arg, ret, cfg, tracker, meta, state, locals, result, out, pre>>

\* Step 2: git checkout original_branch, unless it is checked out already.
RollbackCheckoutOriginal ==
    /\ pc = "rb_checkout_original"
    /\ IF GuardCheckoutOriginal(state)
       THEN \E q, ok \in BOOLEAN :
            LET asked == <<Call("current_branch", q, "rollback")>>
            IN  IF ~q
                THEN /\ log' = log \o asked
                     /\ pc' = "raised"
                     /\ git' = git
                ELSE IF git.branch # state.original_branch
                THEN /\ ok => CanCheckout(git, state.original_branch)
                     /\ log' = log \o asked
                               \o <<Call("checkout_original", ok, "rollback")>>
                     /\ git' = IF ok THEN GitCheckout(git, state.original_branch)
                               ELSE git
                     /\ pc' = AfterRollbackStep("rb_checkout_original")
                ELSE /\ log' = log \o asked
                     /\ git' = git
                     /\ pc' = AfterRollbackStep("rb_checkout_original")
       ELSE /\ pc' = AfterRollbackStep("rb_checkout_original")
            /\ UNCHANGED <<log, git>>
    /\ UNCHANGED <<arg, ret, cfg, tracker, meta, state, locals, result, out, pre>>

\* Step 1: git stash pop
RollbackPopStash ==
    /\ pc = "rb_pop_stash"
    /\ pc' = AfterRollbackStep("rb_pop_stash")
    /\ IF GuardPopStash(state)
       THEN \E ok \in BOOLEAN :
            /\ ok => CanStashPop(git)
            /\ log' = Append(log, Call("undo_stash_pop", ok, "rollback"))
            /\ git' = IF ok THEN GitStashPop(git) ELSE git
       ELSE UNCHANGED <<log, git>>
    /\ UNCHANGED <<arg, ret, cfg, tracker, meta, state, locals, result, out, pre>>

\* The except handler after rollback returned: the failure banner, the
\* manual-close note `if state.issue_iid`, and
\* `return WorkflowResult(success=False, issue_iid=state.issue_iid, error=str(e))`.
ReturnFailure ==
    /\ pc = "rb_done"
    /\ out' = IF state.issue_iid # NoIid THEN Append(out, "close_issue_manually")
              ELSE out
    /\ result' = WorkflowResult(FALSE, state.issue_iid, None, FALSE, FALSE, locals.error)
    /\ pc' = "done"
    /\ UNCHANGED <<arg, ret, cfg, git, tracker, meta, state, locals, log, pre>>

Next ==
    \/ Validate
    \/ CreateIssue
    \/ CheckDirty
    \/ GetDirtyFiles
    \/ Stash
    \/ GetOriginalBranch
    \/ CheckoutBase
    \/ Pull
    \/ CreateBranch
    \/ Push
    \/ StashPop
    \/ UpdateIssue
    \/ SaveIssueJson
    \/ RollbackRestash
    \/ RollbackDeleteRemote
    \/ RollbackDeleteLocal
    \/ RollbackCheckoutOriginal
    \/ RollbackPopStash
    \/ ReturnFailure

Spec == Init /\ [][Next]_vars

(***************************************************************************)
(* Reading the history.                                                    *)
(***************************************************************************)
\* Call act was made (and, for Did, exited successfully).
Attempted(act) == \E i \in 1..Len(log) : log[i].act = act
Did(act) == \E i \in 1..Len(log) : log[i].act = act /\ log[i].ok
Failed(act) == \E i \in 1..Len(log) : log[i].act = act /\ ~log[i].ok

\* Some call made by rollback (an undo command or one of its queries) failed.
UndoFailed == \E i \in 1..Len(log) : log[i].by = "rollback" /\ ~log[i].ok

\* forced_workflow has returned a WorkflowResult.
Returned == pc = "done" /\ ~result.none
\* forced_workflow returned the failure result, after rollback ran through.
RolledBack == Returned /\ ~result.success
\* forced_workflow has ended: by a return or by an exception leaving it.
Ended == pc \in {"done", "raised"}

\* The run's stash push created a stash entry.
StashTaken == Did("stash_push") /\ pre.git.dirty # {}

(***************************************************************************)
(* C1.  For every point at which forced_workflow can fail once a stash has *)
(* been taken, if every call of rollback succeeds, the dirty files of the  *)
(* working copy after rollback are the files that were dirty before the    *)
(* run.  (Fails: after a failure that follows the stash pop, rollback      *)
(* re-stashes the changes and never pops them.)                            *)
(***************************************************************************)
C1_RollbackRestoresDirtyFiles ==
    (RolledBack /\ StashTaken /\ ~UndoFailed)
        => StatusLines(git) = StatusLines(pre.git)

C3_MetadataFailureIsWarning ==
    Failed("save_json")
        => /\ pc \in {"save_json", "done"}
           /\ \A i \in 1..Len(log) : log[i].by # "rollback"
           /\ \A i \in 1..Len(out) : out[i] # "rolling_back"
           /\ locals.branch_name \in git.local \cap git.remote
           /\ pc = "done" => result.success

(***************************************************************************)
(* C4.  rollback never raises: when an undo action fails, or querying the  *)
(* current branch or the remote name fails, rollback goes on with the      *)
(* remaining undo steps, and forced_workflow returns a WorkflowResult with *)
(* success=false.  (Fails: get_remote_name and get_current_branch raise    *)
(* Exception, which rollback's `except CalledProcessError` lets through.)  *)
(***************************************************************************)
C4_RollbackNeverRaises ==
    /\ pc # "raised"
    /\ (Ended /\ locals.error # None) => (~result.none /\ ~result.success)

\* A returned result r agrees with the phases that ran.
ResultConsistent(r) ==
    IF r.success
    THEN /\ Did("create_issue") /\ Did("checkout_base") /\ Did("pull")
         /\ Did("checkout_b") /\ Did("push")
         /\ state.stashed => Did("stash_pop")
         /\ r.issue_iid = tracker.count
         /\ r.branch_name = DerivedBranch(r.issue_iid)
         /\ r.branch_name \in git.local \cap git.remote
         /\ r.pushed
         /\ r.error = None
    ELSE /\ r.error # None
         /\ r.branch_name = None
         /\ ~r.pushed

(***************************************************************************)
(* C5.  forced_workflow returns success=true only if issue creation,       *)
(* checkout of the base, pull, branch creation and push all succeeded and, *)
(* when a stash was taken, the stash pop succeeded; every other outcome    *)
(* has a result with success=false and a non-null error; a success result  *)
(* carries the created branch name and pushed=true.                        *)
(***************************************************************************)
C5_SuccessOnlyIfAllPhases == Ended => (~result.none /\ ResultConsistent(result))

(***************************************************************************)
(* C6.  Rollback never closes, deletes or modifies the created issue;      *)
(* whenever issue creation succeeded and a later phase fails, the returned *)
(* result has success=false and issue_iid equal to the id of the created   *)
(* issue, and the failure output flags that the issue must be closed       *)
(* manually.                                                               *)
(***************************************************************************)
C6_IssueLeftBehindIsReported ==
    (Ended /\ Did("create_issue") /\ locals.error # None)
        => /\ tracker.count = pre.tracker.count + 1
           /\ tracker.closed = {}
           /\ (state.issue_iid \in tracker.described) <=> Did("update_issue")
           /\ ~result.none /\ ~result.success
           /\ result.issue_iid = tracker.count
           /\ \E i \in 1..Len(out) : out[i] = "close_issue_manually"

\* Inputs that pre-flight validation must reject.
MissingField == ~(Required \subseteq cfg.fields)
NoRemote == cfg.remotes = <<>>
NoRemoteBase == get_remote_name(cfg, TRUE).name \notin cfg.with_base
InvalidInput == MissingField \/ ~cfg.is_repo \/ NoRemote \/ NoRemoteBase

C8_FailureStopsForward ==
    \A i \in 1..Len(log) :
        (log[i].by = "forward" /\ ~log[i].ok /\ log[i].act # "save_json")
            => /\ \A j \in (i + 1)..Len(log) : log[j].by # "forward"
               /\ pc \in Range(RollbackSteps) \cup {"rb_done", "done", "raised"}

\* The undo commands of rollback, numbered in the order the claim gives.
UndoRank(act) ==
    CASE act = "re_stash" -> 1
      [] act = "push_delete" -> 2
      [] act = "checkout_switch" -> 3
      [] act = "branch_D" -> 4
      [] act = "checkout_original" -> 5
      [] act = "undo_stash_pop" -> 6
      [] OTHER -> 0

IsUndo(c) == c.by = "rollback" /\ UndoRank(c.act) > 0

\* The condition under which rollback may make call c.
UndoGuard(c) ==
    CASE c.act = "re_stash" -> has(state, "stash_popped")
      [] c.act \in {"push_delete", "git_remote"} ->
            has(state, "pushed") /\ state.branch_name # None
      [] c.act = "checkout_switch" ->
            has(state, "branch_created") /\ c.on = state.branch_name
      [] c.act = "branch_D" -> has(state, "branch_created")
      [] c.act = "checkout_original" ->
            /\ has(state, "switched_to_base")
            /\ state.original_branch # None
            /\ c.on # state.original_branch
      [] c.act = "undo_stash_pop" ->
            has(state, "stashed") /\ ~has(state, "stash_popped")
      [] c.act = "current_branch" ->
            has(state, "branch_created") \/ has(state, "switched_to_base")
      [] OTHER -> FALSE

(***************************************************************************)
(* C9.  rollback attempts its undo actions in one fixed order, each only   *)
(* when its guard holds: (a) re-stash if stash_popped; (b) delete the      *)
(* remote branch if pushed and branch_name is set; (c) switch away from    *)
(* and force-delete the local branch if branch_created; (d) checkout       *)
(* original_branch if switched_to_base, original_branch is set and it is   *)
(* not checked out already; (e) pop the stash if stashed and not           *)
(* stash_popped.                                                           *)
(***************************************************************************)
C9_RollbackOrder ==
    /\ \A i, j \in 1..Len(log) :
        (i < j /\ IsUndo(log[i]) /\ IsUndo(log[j]))
            => UndoRank(log[i].act) < UndoRank(log[j].act)
    /\ \A i \in 1..Len(log) : log[i].by = "rollback" => UndoGuard(log[i])

\* A rollback after the stash pop: re-stash, remote deletion, switch and local
\* deletion all ran.
C9_Witness ==
    /\ RolledBack
    /\ Did("re_stash") /\ Did("push_delete") /\ Did("checkout_switch") /\ Did("branch_D")

\* The side-effecting actions of the try block, numbered in the claimed order.
ForwardRank(act) ==
    CASE act = "create_issue" -> 1
      [] act = "stash_push" -> 2
      [] act = "checkout_base" -> 3
      [] act = "pull" -> 4
      [] act = "checkout_b" -> 5
      [] act = "push" -> 6
      [] act = "stash_pop" -> 7
      [] act = "update_issue" -> 8
      [] act = "save_json" -> 9
      [] OTHER -> 0

IsForward(c) == c.by = "forward" /\ ForwardRank(c.act) > 0

\* The actions that must have succeeded before act starts.
Before(act) ==
    CASE act = "create_issue" -> {}
      [] act = "stash_push" -> {"create_issue"}
      [] act = "checkout_base" -> {"create_issue"}
      [] act = "pull" -> {"create_issue", "checkout_base"}
      [] act = "checkout_b" -> {"create_issue", "checkout_base", "pull"}
      [] act = "push" -> {"create_issue", "checkout_base", "pull", "checkout_b"}
      [] act = "stash_pop" ->
            {"create_issue", "stash_push", "checkout_base", "pull", "checkout_b", "push"}
      [] act = "update_issue" ->
            {"create_issue", "stash_push", "checkout_base", "pull", "checkout_b", "push",
             "stash_pop"}
      [] act = "save_json" -> {"create_issue", "checkout_base", "pull", "checkout_b", "push"}

C11_SuccessKeepsDirtyFiles ==
    (Returned /\ result.success /\ StatusLines(pre.git) # {})
        => /\ git.branch = result.branch_name
           /\ git.branch \notin pre.git.local
           /\ git.dirty = pre.git.dirty
           /\ git.untracked = pre.git.untracked
           /\ git.stash = pre.git.stash

\* rollback(state) is running: the points at which it reads the WorkflowState.
InRollback == pc \in {RollbackSteps[i] : i \in 1..Len(RollbackSteps)}

(***************************************************************************)
(* C12.  In every state of a run that rollback can observe,                *)
(* WorkflowState.branch_name is set if and only if 'branch_created' is in  *)
(* completed_steps, in particular when creating the branch itself fails.   *)
(* (Fails: branch_name is assigned before `git checkout -b` runs.)         *)
(***************************************************************************)
C12_BranchNameIffCreated ==
    InRollback => (state.branch_name # None <=> has(state, "branch_created"))

(***************************************************************************)
(* C13.  Whenever WorkflowState.stashed is true and 'stash_popped' is not  *)
(* recorded (and rollback has not yet used the entry), exactly one stash   *)
(* entry created by this run is outstanding: it lies on top of the entries *)
(* that were there before and holds the changes of the working copy.  This *)
(* covers a working copy whose only changes are untracked files and one    *)
(* whose status command failed.  (Fails: `git stash push` creates no entry *)
(* when there is no modified tracked file.)                                *)
(***************************************************************************)
C13_StashedMeansOneEntry ==
    (state.stashed /\ ~has(state, "stash_popped") /\ ~Attempted("undo_stash_pop"))
        => /\ Len(git.stash) = Len(pre.git.stash) + 1
           /\ Tail(git.stash) = pre.git.stash
           /\ Head(git.stash) \cup git.dirty \cup git.untracked = StatusLines(pre.git)

\* The place of a step identifier in the forward order; 'json_loaded' is
\* recorded once validation has read the JSON file, before any action.
StepRank(step) ==
    CASE step = "json_loaded" -> 0
      [] step = "issue_created" -> 1
      [] step = "stashed" -> 2
      [] step = "switched_to_base" -> 3
      [] step = "pulled_latest" -> 4
      [] step = "branch_created" -> 5
      [] step = "pushed" -> 6
      [] step = "stash_popped" -> 7

\* The action whose success a step identifier records.
StepAction(step) ==
    CASE step = "issue_created" -> "create_issue"
      [] step = "stashed" -> "stash_push"
      [] step = "switched_to_base" -> "checkout_base"
      [] step = "pulled_latest" -> "pull"
      [] step = "branch_created" -> "checkout_b"
      [] step = "pushed" -> "push"
      [] step = "stash_popped" -> "stash_pop"

StepNames ==
    {"json_loaded", "issue_created", "stashed", "switched_to_base", "pulled_latest",
     "branch_created", "pushed", "stash_popped"}

UpperLetters ==
    <<"A", "B", "C", "D", "E", "F", "G", "H", "I", "J", "K", "L", "M",
      "N", "O", "P", "Q", "R", "S", "T", "U", "V", "W", "X", "Y", "Z">>
LowerLetters ==
    <<"a", "b", "c", "d", "e", "f", "g", "h", "i", "j", "k", "l", "m",
      "n", "o", "p", "q", "r", "s", "t", "u", "v", "w", "x", "y", "z">>
DigitChars == <<"0", "1", "2", "3", "4", "5", "6", "7", "8", "9">>

Letters == Range(UpperLetters) \cup Range(LowerLetters)    \* a-zA-Z
Digits == Range(DigitChars)                                \* \d, 0-9
Whitespace == {" ", "\t", "\n", "\r", "\f"}                \* \s
Newline == "\n"

\* str.lower() of one character.
LowerChar(c) ==
    IF \E i \in 1..Len(UpperLetters) : UpperLetters[i] = c
    THEN LowerLetters[CHOOSE i \in 1..Len(UpperLetters) : UpperLetters[i] = c]
    ELSE c

\* str.lower()
lower(s) == [i \in 1..Len(s) |-> LowerChar(s[i])]

\* str.strip(): leading and trailing whitespace removed.
strip(s) ==
    LET inner == {i \in 1..Len(s) : s[i] \notin Whitespace}
    IN  IF inner = {} THEN <<>>
        ELSE LET a == CHOOSE i \in inner : \A j \in inner : i <= j
                 b == CHOOSE i \in inner : \A j \in inner : j <= i
             IN  SubSeq(s, a, b)

\* s[:n]
Take(s, n) == IF Len(s) <= n THEN s ELSE SubSeq(s, 1, n)

\* Every character of s[a..b] is matched by `.` (anything but a newline).
Dots(s, a, b) == \A k \in a..b : s[k] # Newline

\* `$` at position k (k characters consumed): the end of the string, or just
\* before a newline that ends the string.
AtEnd(s, k) == k = Len(s) \/ (k = Len(s) - 1 /\ s[Len(s)] = Newline)

\* Mutant: the pattern without `\d+`, r'^.+/.*$'.
validate_branch_name_NoDigit(branch_name) ==
    \E i \in 1..Len(branch_name) : \E k \in i..Len(branch_name) :
        /\ i + 1 <= Len(branch_name)
        /\ Dots(branch_name, 1, i)
        /\ branch_name[i + 1] = "/"
        /\ k >= i + 1
        /\ Dots(branch_name, i + 2, k)
        /\ AtEnd(branch_name, k)

\* validate_branch_name: bool(re.match(r'^.+/\d+.*$', branch_name, re.IGNORECASE)).
\* `.+` ends at i, `/` is at i + 1, `\d+` ends at j, `.*` ends at k.
validate_branch_name(branch_name) ==
    \E i \in 1..Len(branch_name) : \E j, k \in (i + 2)..Len(branch_name) :
        /\ Dots(branch_name, 1, i)
        /\ branch_name[i + 1] = "/"
        /\ \A d \in (i + 2)..j : branch_name[d] \in Digits
        /\ j <= k
        /\ Dots(branch_name, j + 1, k)
        /\ AtEnd(branch_name, k)

(***************************************************************************)
(* The title slug and the branch name forced_workflow and full_workflow    *)
(* derive from it.                                                         *)
(***************************************************************************)
\* sanitized_title[:50]
SlugMax == 50

\* re.sub(r'[^a-zA-Z0-9\s-]', '', title)
DropOthers(title) ==
    SelectSeq(title, LAMBDA c : c \in Letters \cup Digits \cup Whitespace \cup {"-"})

\* re.sub(r'\s+', '-', s): every maximal run of whitespace becomes one '-'.
RECURSIVE DashRuns(_)
DashRuns(s) ==
    IF s = <<>> THEN <<>>
    ELSE IF Head(s) \in Whitespace
         THEN IF Len(s) > 1 /\ s[2] \in Whitespace
              THEN DashRuns(Tail(s))
              ELSE <<"-">> \o DashRuns(Tail(s))
         ELSE <<Head(s)>> \o DashRuns(Tail(s))

\* Mutant: the slug is not cut to 50 characters.
sanitize_title_NoCut(title) == lower(DashRuns(strip(DropOthers(title))))

\* sanitized_title, as lines 1682-1684 (and 1915-1917) compute it.
sanitize_title(title) == lower(Take(DashRuns(strip(DropOthers(title))), SlugMax))

\* str(issue_iid): the decimal digits of a positive integer.
RECURSIVE Decimal(_)
Decimal(n) ==
    IF n < 10 THEN <<DigitChars[n + 1]>>
    ELSE Decimal(n \div 10) \o <<DigitChars[(n % 10) + 1]>>

\* branch_name, as lines 1686-1689 (and 1920-1923) build it.
branch_name_of(issueCode, issue_iid, title) ==
    LET sanitized_title == sanitize_title(title)
    IN  IF sanitized_title = <<>> \/ sanitized_title = <<"-">>
        THEN lower(issueCode) \o <<"/">> \o Decimal(issue_iid)
        ELSE lower(issueCode) \o <<"/">> \o Decimal(issue_iid) \o <<"-">> \o sanitized_title

(***************************************************************************)
(* Removal of a conventional-commit prefix from a commit subject, in the   *)
(* four places that do it.                                                 *)
(***************************************************************************)
\* ['feat', 'fix', 'refactor', 'docs', 'style', 'test', 'chore']
ConventionalTypes ==
    {<<"f", "e", "a", "t">>,
     <<"f", "i", "x">>,
     <<"r", "e", "f", "a", "c", "t", "o", "r">>,
     <<"d", "o", "c", "s">>,
     <<"s", "t", "y", "l", "e">>,
     <<"t", "e", "s", "t">>,
     <<"c", "h", "o", "r", "e">>}

\* ':' in subject
HasColon(subject) == \E i \in 1..Len(subject) : subject[i] = ":"

\* subject.split(':', 1): the text before and after the first ':'.
SplitColon(subject) ==
    LET i == CHOOSE k \in 1..Len(subject) :
                 subject[k] = ":" /\ \A j \in 1..(k - 1) : subject[j] # ":"
    IN  <<SubSeq(subject, 1, i - 1), SubSeq(subject, i + 1, Len(subject))>>

\* generate_requirements_summary: clean_subject.  The part before the colon
\* is not looked at.
clean_subject(subject) ==
    IF HasColon(subject) THEN strip(SplitColon(subject)[2]) ELSE subject

\* update_issue_from_branch, update_title: the same steps as clean_subject.
issue_title_subject(subject) ==
    IF HasColon(subject) THEN strip(SplitColon(subject)[2]) ELSE subject

\* generate_mr_summary: the prefix goes only if parts[0].strip() is a type.
mr_summary_subject(subject) ==
    IF HasColon(subject) /\ strip(SplitColon(subject)[1]) \in ConventionalTypes
    THEN strip(SplitColon(subject)[2])
    ELSE subject

\* s without its leading whitespace: what `\s*` consumes after the colon.
SkipWhitespace(s) ==
    LET rest == {i \in 1..Len(s) : s[i] \notin Whitespace}
    IN  IF rest = {} THEN <<>>
        ELSE SubSeq(s, CHOOSE i \in rest : \A j \in rest : i <= j, Len(s))

\* s begins with p.
StartsWith(s, p) == Len(p) <= Len(s) /\ SubSeq(s, 1, Len(p)) = p

\* get_first_commit_subject:
\* re.sub(r'^(feat|fix|refactor|docs|style|test|chore):\s*', '', subject).
get_first_commit_subject(subject) ==
    IF \E ty \in ConventionalTypes : StartsWith(subject, ty \o <<":">>)
    THEN LET ty == CHOOSE x \in ConventionalTypes : StartsWith(subject, x \o <<":">>)
         IN  SkipWhitespace(SubSeq(subject, Len(ty) + 2, Len(subject)))
    ELSE subject

(***************************************************************************)
(* The operations that take a branch name, as the calls they make (in      *)
(* order) and the error they raise.                                        *)
(***************************************************************************)
Outcome(branch_name, error, calls) ==
    [branch_name |-> branch_name, error |-> error, calls |-> calls]

\* The ValueError messages that name the required format.
InvalidBranchName ==
    "Invalid branch name: Branch name must follow format: [issue-code]/[GitLab#]-[summary]"
InvalidSourceBranchName ==
    "Invalid source branch name: Branch name must follow format: [Asana#]/[GitLab#]-[summary]"
FormatErrors == {InvalidBranchName, InvalidSourceBranchName}

\* create_branch(branch_name, ref='main', skip_dirty_check): clean is what the
\* status check finds, ok whether the git commands succeed.
create_branch(branch_name, skip_dirty_check, clean, ok) ==
    IF ~validate_branch_name(branch_name)
    THEN Outcome(branch_name, InvalidBranchName, <<>>)
    ELSE IF ~skip_dirty_check /\ ~clean
    THEN Outcome(branch_name, "Cannot create branch: Working directory has uncommitted changes",
                 <<"status", "status_files">>)
    ELSE LET checks == IF skip_dirty_check THEN <<>> ELSE <<"status">>
         IN  IF ok
             THEN Outcome(branch_name, None,
                          checks \o <<"git_remote", "fetch", "rev_parse_verify", "checkout_b">>)
             ELSE Outcome(branch_name, "Failed to create branch",
                          checks \o <<"git_remote", "fetch">>)

\* push_branch(branch_name): the name goes to `git push` as it is.
push_branch(branch_name, ok) ==
    Outcome(branch_name, IF ok THEN None ELSE "Failed to push branch",
            <<"git_remote", "push">>)

\* create_merge_request(source_branch, ...): on_source is whether the source
\* branch is checked out, ok whether the POST succeeds.
create_merge_request(source_branch, on_source, ok) ==
    IF ~validate_branch_name(source_branch)
    THEN Outcome(source_branch, InvalidSourceBranchName, <<>>)
    ELSE Outcome(source_branch, IF ok THEN None ELSE "GitLab API Error",
                 <<"current_branch">> \o (IF on_source THEN <<>> ELSE <<"checkout">>)
                 \o <<"status", "post_merge_requests">>)

\* forced_workflow, Phase 3: the derived name goes to `git checkout -b` as it
\* is, after the issue was created and the base branch pulled.
forced_create_branch(issueCode, issue_iid, title, ok) ==
    Outcome(branch_name_of(issueCode, issue_iid, title),
            IF ok THEN None ELSE "git checkout -b failed",
            <<"create_issue", "status", "current_branch", "checkout_base", "pull",
              "checkout_b">>)

(***************************************************************************)
(* get_branch_diff_stats: the numbers read from `git diff --shortstat`.    *)
(***************************************************************************)
\* int() of a string of decimal digits.
DigitValue(c) == (CHOOSE k \in 1..Len(DigitChars) : DigitChars[k] = c) - 1

RECURSIVE IntOf(_)
IntOf(ds) ==
    IF ds = <<>> THEN 0
    ELSE 10 * IntOf(SubSeq(ds, 1, Len(ds) - 1)) + DigitValue(ds[Len(ds)])

\* The last position of the run of digits that covers position i of s.
RunEnd(s, i) ==
    CHOOSE j \in i..Len(s) :
        /\ \A k \in i..j : s[k] \in Digits
        /\ j = Len(s) \/ s[j + 1] \notin Digits

\* s has the text lit at position p.
HasAt(s, p, lit) == p + Len(lit) - 1 <= Len(s) /\ SubSeq(s, p, p + Len(lit) - 1) = lit

\* Mutant: only the plural 'files changed' is recognised.
FilesChanged_PluralOnly ==
    {<<" ", "f", "i", "l", "e", "s", " ", "c", "h", "a", "n", "g", "e", "d">>}

\* ' files? changed', ' insertions?\(\+\)', ' deletions?\(-\)': the texts each
\* pattern accepts after its digits.
FilesChanged ==
    {<<" ", "f", "i", "l", "e", "s", " ", "c", "h", "a", "n", "g", "e", "d">>,
     <<" ", "f", "i", "l", "e", " ", "c", "h", "a", "n", "g", "e", "d">>}
Insertions ==
    {<<" ", "i", "n", "s", "e", "r", "t", "i", "o", "n", "s", "(", "+", ")">>,
     <<" ", "i", "n", "s", "e", "r", "t", "i", "o", "n", "(", "+", ")">>}
Deletions ==
    {<<" ", "d", "e", "l", "e", "t", "i", "o", "n", "s", "(", "-", ")">>,
     <<" ", "d", "e", "l", "e", "t", "i", "o", "n", "(", "-", ")">>}

\* re.search(r'(\d+)<lit>', s): the positions at which the pattern matches;
\* `\d+` is greedy and what follows it is no digit, so group 1 runs to the end
\* of the run of digits.
Matches(s, lits) ==
    {i \in 1..Len(s) : s[i] \in Digits /\ \E lit \in lits : HasAt(s, RunEnd(s, i) + 1, lit)}

\* int(match.group(1)) of the leftmost match `if match`, else the default 0.
NumberBefore(s, lits) ==
    IF Matches(s, lits) = {} THEN 0
    ELSE LET i == CHOOSE m \in Matches(s, lits) : \A n \in Matches(s, lits) : m <= n
         IN  IntOf(SubSeq(s, i, RunEnd(s, i)))

\* stats = {'files_changed': 0, 'insertions': 0, 'deletions': 0}
ZeroStats == [files_changed |-> 0, insertions |-> 0, deletions |-> 0]

\* get_branch_diff_stats, from result.stdout on.
get_branch_diff_stats(stdout) ==
    LET output == strip(stdout)
    IN  IF output = <<>> THEN ZeroStats
        ELSE [files_changed |-> NumberBefore(output, FilesChanged),
              insertions |-> NumberBefore(output, Insertions),
              deletions |-> NumberBefore(output, Deletions)]

(***************************************************************************)
(* validate_issue_code (interactive_issue_create.py) and the issue IID     *)
(* read back from a branch name.                                           *)
(***************************************************************************)
\* str.upper() of one character, and of a string.
UpperChar(c) ==
    IF \E i \in 1..Len(LowerLetters) : LowerLetters[i] = c
    THEN UpperLetters[CHOOSE i \in 1..Len(LowerLetters) : LowerLetters[i] = c]
    ELSE c

upper(s) == [i \in 1..Len(s) |-> UpperChar(s[i])]

\* Mutant: the pattern with `[A-Z0-9/]+`, which lets a '/' through.
validate_issue_code_WithSlash(issue_code) ==
    LET u == upper(issue_code)
    IN  \E i \in 1..Len(u) : \E h \in 0..1 : \E k \in (i + h)..Len(u) :
            /\ \A a \in 1..i : u[a] \in Range(UpperLetters) \cup Digits \cup {"/"}
            /\ h = 1 => u[i + 1] = "-"
            /\ \A d \in (i + h + 1)..k : u[d] \in Digits
            /\ AtEnd(u, k)

\* validate_issue_code:
\* bool(re.match(r'^[A-Z0-9]+-?\d*$|^\d+$', issue_code.upper())).
\* `[A-Z0-9]+` ends at i, h is 1 if `-?` takes a '-', `\d*` ends at k.
validate_issue_code(issue_code) ==
    LET u == upper(issue_code)
    IN  \/ \E i \in 1..Len(u) : \E h \in 0..1 : \E k \in (i + h)..Len(u) :
            /\ \A a \in 1..i : u[a] \in Range(UpperLetters) \cup Digits
            /\ h = 1 => u[i + 1] = "-"
            /\ \A d \in (i + h + 1)..k : u[d] \in Digits
            /\ AtEnd(u, k)
        \/ \E k \in 1..Len(u) :
            /\ \A d \in 1..k : u[d] \in Digits
            /\ AtEnd(u, k)

\* The positions at which r'/(\d+)' matches.
SlashDigits(branch_name) ==
    {i \in 1..(Len(branch_name) - 1) :
        branch_name[i] = "/" /\ branch_name[i + 1] \in Digits}

\* extract_issue_iid, and the same steps in update_issue_from_branch:
\* match = re.search(r'/(\d+)', branch_name); int(match.group(1)) if match.
extract_issue_iid(branch_name) ==
    IF SlashDigits(branch_name) = {}
    THEN [found |-> FALSE, iid |-> NoIid]
    ELSE LET i == CHOOSE m \in SlashDigits(branch_name) :
                      \A n \in SlashDigits(branch_name) : m <= n
         IN  [found |-> TRUE,
              iid |-> IntOf(SubSeq(branch_name, i + 1, RunEnd(branch_name, i + 1)))]

(***************************************************************************)
(* A second specification: the helpers applied on their own.  HelperInit   *)
(* draws the arguments, each action applies one helper to them; no         *)
(* forced_workflow call is running.                                        *)
(***************************************************************************)
MaxNameLen == 4     \* longest branch name drawn
MaxTitleLen == 3    \* longest short title drawn
MaxChunks == 4      \* most chunks a commit subject is built from

\* All sequences over alphabet of length at most n.
Strs(alphabet, n) == UNION {[1..m -> alphabet] : m \in 0..n}

BranchAlphabet == {"a", "/", "1", Newline}
TitleAlphabet == {"a", "B", " ", "-", "!"}

\* The names the help text and the documentation give as valid and as
\* invalid.
ValidExamples ==
    {<<"V", "T", "M", "-", "1", "3", "7", "2", "/", "3", "4", "2", "-",
       "a", "d", "d", "-", "f", "e", "a", "t", "u", "r", "e">>,
     <<"1", "3", "7", "2", "/", "3", "4", "2", "-", "f", "i", "x", "-",
       "b", "u", "g">>,
     <<"V", "T", "M", "-", "9", "9", "9", "/", "3", "0", "7", "-", "r",
       "e", "f", "a", "c", "t", "o", "r">>,
     <<"1", "3", "7", "2", "/", "3", "0", "5">>}
InvalidExamples ==
    {<<"3", "4", "2", "-", "f", "e", "a", "t", "u", "r", "e">>,
     <<"V", "T", "M", "-", "1", "3", "7", "2", "-", "3", "4", "2">>,
     <<"f", "e", "a", "t", "u", "r", "e", "-", "n", "a", "m", "e">>}

BranchNames == Strs(BranchAlphabet, MaxNameLen) \cup ValidExamples \cup InvalidExamples

\* Titles around the 50-character cut: SlugMax - 2 letters, then a short title.
Filler == [i \in 1..(SlugMax - 2) |-> "a"]
Titles ==
    Strs(TitleAlphabet, MaxTitleLen) \cup {Filler \o s : s \in Strs(TitleAlphabet, MaxTitleLen)}

\* issueCode values the required-fields check lets through: any value
\* present in the JSON, the empty string included.
IssueCodes == {<<>>, <<"V", "T", "M", "-", "1">>}
IssueIids == {7, 12}

RECURSIVE Flatten(_)
Flatten(chunks) == IF chunks = <<>> THEN <<>> ELSE Head(chunks) \o Flatten(Tail(chunks))

SubjectChunks ==
    {<<"f", "e", "a", "t">>, <<"f", "i", "x">>, <<"r", "a", "n", "d", "o", "m">>,
     <<":">>, <<" ">>, <<"x">>}
Subjects == {Flatten(cs) : cs \in Strs(SubjectChunks, MaxChunks)}

MaxCount == 3       \* largest one-digit count in a shortstat text
MaxCodeLen == 3     \* longest issue code drawn

\* The fragment texts, plural and singular.
FilesText == 
    <<" ", "f", "i", "l", "e", "s", " ", "c", "h", "a", "n", "g", "e", "d">>
FileText == 
    <<" ", "f", "i", "l", "e", " ", "c", "h", "a", "n", "g", "e", "d">>
InsertionsText == 
    <<" ", "i", "n", "s", "e", "r", "t", "i", "o", "n", "s", "(", "+", ")">>
InsertionText == 
    <<" ", "i", "n", "s", "e", "r", "t", "i", "o", "n", "(", "+", ")">>
DeletionsText == 
    <<" ", "d", "e", "l", "e", "t", "i", "o", "n", "s", "(", "-", ")">>
DeletionText == 
    <<" ", "d", "e", "l", "e", "t", "i", "o", "n", "(", "-", ")">>

\* `git diff --shortstat` texts: each fragment present with a count, or absent.
Absent == -1
Counts == (0..MaxCount) \cup {10}
MaybeCounts == Counts \cup {Absent}

Fragment(n, singular, plural) ==
    IF n = Absent THEN <<>>
    ELSE Decimal(n) \o (IF n = 1 THEN singular ELSE plural)

RECURSIVE JoinComma(_)
JoinComma(parts) ==
    IF parts = <<>> THEN <<>>
    ELSE IF Len(parts) = 1 THEN parts[1]
    ELSE parts[1] \o <<",", " ">> \o JoinComma(Tail(parts))

\* The line git prints for f files, i insertions and d deletions.
ShortStat(f, i, d) ==
    LET parts == SelectSeq(<<Fragment(f, FileText, FilesText),
                             Fragment(i, InsertionText, InsertionsText),
                             Fragment(d, DeletionText, DeletionsText)>>,
                           LAMBDA x : x # <<>>)
    IN  IF parts = <<>> THEN <<>> ELSE <<" ">> \o JoinComma(parts) \o <<Newline>>

\* '3 files changed, 10 insertions(+), 2 deletions(-)'
ExampleShortStat ==
    <<"3", " ", "f", "i", "l", "e", "s", " ", "c", "h", "a", "n", "g", "e",
      "d", ",", " ", "1", "0", " ", "i", "n", "s", "e", "r", "t", "i", "o",
      "n", "s", "(", "+", ")", ",", " ", "2", " ", "d", "e", "l", "e", "t",
      "i", "o", "n", "s", "(", "-", ")">>

ShortStats == {ShortStat(f, i, d) : f, i, d \in MaybeCounts} \cup {ExampleShortStat}

\* `git remote` listings, origin first, last and absent; a configured
\* remote_name, or none.
RemoteListings ==
    {<<>>, <<"origin">>, <<"gitlab">>, <<"origin", "gitlab">>, <<"gitlab", "origin">>,
     <<"gitlab", "upstream">>}
ConfiguredRemotes == {<<>>, <<"gitlab">>, <<"backup">>}

\* Issue codes and the titles and ids they are combined with.
CodeAlphabet == {"V", "a", "1", "-", "/", Newline}
CodeTitles == Strs({"a", "1", "-"}, 1)

Args ==
    {[kind |-> "branch_name", text |-> s, code |-> <<>>, iid |-> NoIid] : s \in BranchNames}
    \cup {[kind |-> "issue", text |-> s, code |-> c, iid |-> n] :
            s \in Titles, c \in IssueCodes, n \in IssueIids}
    \cup {[kind |-> "subject", text |-> s, code |-> <<>>, iid |-> NoIid] : s \in Subjects}
    \cup {[kind |-> "shortstat", text |-> s, code |-> <<>>, iid |-> NoIid] : s \in ShortStats}
    \cup {[kind |-> "remotes", text |-> s, code |-> c, iid |-> NoIid] :
            s \in RemoteListings, c \in ConfiguredRemotes}
    \cup {[kind |-> "issue_code", text |-> s, code |-> c, iid |-> n] :
            s \in CodeTitles, c \in Strs(CodeAlphabet, MaxCodeLen), n \in IssueIids}
    \cup {[kind |-> "working_copy", text |-> <<>>, code |-> <<>>, iid |-> NoIid]}
    \cup {[kind |-> "full_workflow", text |-> <<>>, code |-> <<>>, iid |-> NoIid]}

\* The working copy and configuration while only helpers are applied.
IdleConfig ==
    [json_exists |-> FALSE, fields |-> {}, is_repo |-> TRUE, remote_name |-> "",
     remotes |-> <<"origin">>, with_base |-> {"origin"}, issue_dir |-> FALSE]
IdleRepository ==
    [branch |-> BaseBranch, local |-> {BaseBranch}, remote |-> {}, dirty |-> {},
     untracked |-> {}, stash |-> <<>>]

HelperInit ==
    /\ arg \in Args
    /\ ret = NoRet
    /\ cfg = IdleConfig
    /\ git = IdleRepository
    /\ tracker = [count |-> 0, described |-> {}, closed |-> {}]
    /\ meta = {}
    /\ state = NewWorkflowState
    /\ locals = [remote_name |-> "", issue_iid |-> NoIid, is_dirty |-> FALSE,
                 dirty_files |-> {}, branch_name |-> None,
                 ai_updated |-> FALSE, error |-> None]
    /\ pc = "idle"
    /\ result = NoResult
    /\ log = <<>>
    /\ out = <<>>
    /\ pre = [git |-> git, tracker |-> tracker]

\* The helper fn returned val.
Return(fn, val) ==
    /\ ret' = [fn |-> fn, val |-> val]
    /\ UNCHANGED <<arg, cfg, git, tracker, meta, state, locals, pc, result, log, out, pre>>

CallValidateBranchName ==
    /\ arg.kind = "branch_name"
    /\ Return("validate_branch_name", validate_branch_name(arg.text))

CallCreateBranch ==
    /\ arg.kind = "branch_name"
    /\ \E skip_dirty_check, clean, ok \in BOOLEAN :
        Return("create_branch", create_branch(arg.text, skip_dirty_check, clean, ok))

CallPushBranch ==
    /\ arg.kind = "branch_name"
    /\ \E ok \in BOOLEAN : Return("push_branch", push_branch(arg.text, ok))

CallCreateMergeRequest ==
    /\ arg.kind = "branch_name"
    /\ \E on_source, ok \in BOOLEAN :
        Return("create_merge_request", create_merge_request(arg.text, on_source, ok))

CallSanitizeTitle ==
    /\ arg.kind = "issue"
    /\ Return("sanitize_title", sanitize_title(arg.text))

CallForcedCreateBranch ==
    /\ arg.kind = "issue"
    /\ \E ok \in BOOLEAN :
        Return("forced_create_branch", forced_create_branch(arg.code, arg.iid, arg.text, ok))

CallCleanSubject ==
    /\ arg.kind = "subject"
    /\ Return("generate_requirements_summary", clean_subject(arg.text))

CallIssueTitleSubject ==
    /\ arg.kind = "subject"
    /\ Return("update_issue_from_branch", issue_title_subject(arg.text))

CallMrSummarySubject ==
    /\ arg.kind = "subject"
    /\ Return("generate_mr_summary", mr_summary_subject(arg.text))

CallGetFirstCommitSubject ==
    /\ arg.kind = "subject"
    /\ Return("get_first_commit_subject", get_first_commit_subject(arg.text))

CallGetBranchDiffStats ==
    /\ arg.kind = "shortstat"
    /\ Return("get_branch_diff_stats", get_branch_diff_stats(arg.text))

\* self.remote_name and the output of `git remote`, as get_remote_name's c.
RemoteConfig(a) ==
    [remote_name |-> IF a.code = <<>> THEN "" ELSE a.code[1], remotes |-> a.text]

CallGetRemoteName ==
    /\ arg.kind = "remotes"
    /\ \E q \in BOOLEAN :
        Return("get_remote_name", [exit0 |-> q, got |-> get_remote_name(RemoteConfig(arg), q)])

CallExtractIssueIid ==
    /\ arg.kind = "branch_name"
    /\ Return("extract_issue_iid", extract_issue_iid(arg.text))

\* The name derived for an issue code, id and title, and the IID read back
\* from it.
CallExtractFromDerived ==
    /\ arg.kind = "issue_code"
    /\ LET branch_name == branch_name_of(arg.code, arg.iid, arg.text)
       IN  Return("update_issue_from_branch_iid",
                  [accepted |-> validate_issue_code(arg.code),
                   branch_name |-> branch_name,
                   extracted |-> extract_issue_iid(branch_name)])

(***************************************************************************)
(* handle_dirty_working_directory_for_mr.  w is a working copy: the        *)
(* repository record and, per branch, the changes its commits hold.        *)
(***************************************************************************)
TempBranch == "temp/feature_wip"    \* temp/{current_branch}_wip_{timestamp}
Choices == {"1", "2", "3", "interrupt"}   \* the answer that ends the prompt loop

WorkingCopies ==
    {[git |-> [branch |-> OtherBranch, local |-> {BaseBranch, OtherBranch},
               remote |-> {OtherBranch}, dirty |-> d, untracked |-> u, stash |-> s],
      held |-> [b \in {BaseBranch, OtherBranch, TempBranch} |-> {}]] :
        d \in SUBSET ModifiedFiles, u \in SUBSET UntrackedFiles, s \in StashStacks}

\* commit_current_changes: `git add .` and `git commit`.
commit_current_changes(w) ==
    [w EXCEPT !.held[w.git.branch] = @ \cup StatusLines(w.git),
              !.git.dirty = {}, !.git.untracked = {}]

\* `git checkout -b temp_branch`: the new branch starts at the commit of the
\* current one.
checkout_temp_branch(w) ==
    [w EXCEPT !.git = GitCheckoutNew(@, TempBranch),
              !.held[TempBranch] = w.held[w.git.branch]]

Handled(action, w, raised) == [action |-> action, after |-> w, raised |-> raised]

handle_dirty_working_directory_for_mr(w, choice) ==
    LET current_branch == w.git.branch
        stashed == [w EXCEPT !.git = GitStashPush(@)]
        on_temp == checkout_temp_branch(stashed)
        popped  == [on_temp EXCEPT !.git = GitStashPop(@)]
        back    == [popped EXCEPT !.git = GitCheckout(@, current_branch)]
    IN  IF StatusLines(w.git) = {} THEN Handled("clean", w, FALSE)
        ELSE CASE choice = "1" -> Handled("commit_current", commit_current_changes(w), FALSE)
               [] choice = "2" ->
                    IF CanStashPop(on_temp.git)
                    THEN Handled("move_to_temp", back, FALSE)
                    ELSE Handled("none", on_temp, TRUE)
               [] OTHER -> Handled("cancel", w, FALSE)

CallHandleDirtyForMr ==
    /\ arg.kind = "working_copy"
    /\ ret = NoRet      \* one call, on the inputs drawn here
    /\ \E w \in WorkingCopies, choice \in Choices :
        Return("handle_dirty_working_directory_for_mr",
               [before |-> w, choice |-> choice,
                got |-> handle_dirty_working_directory_for_mr(w, choice)])

(***************************************************************************)
(* full_workflow, from the issue's creation on.  e is what the call meets: *)
(* its auto_push and create_branch arguments, what the dirty-directory     *)
(* prompt returns, the answer to the push prompt, whether create_branch,   *)
(* pop_stash, get_remote_name and push_branch succeed, and whether         *)
(* issue_dir is configured.                                                *)
(***************************************************************************)
IssueBranch == DerivedBranch(1)    \* the branch name generated or given
Ye == "U+C608"      \* the one-syllable Korean answer accepted by the prompt
Affirmative == {<<"y">>, <<"y", "e", "s">>, <<Ye>>}

YesAnswers == {<<"y">>, <<"Y", "e", "s">>, <<" ", "y", "\n">>, <<Ye>>}
NoAnswers == {<<"n">>, <<>>, <<"y", "y">>}
Responses ==
    {[interrupted |-> FALSE, text |-> t] : t \in YesAnswers \cup NoAnswers}
    \cup {[interrupted |-> TRUE, text |-> <<>>]}

DirtyActions == {"clean", "move_to_new", "commit_current", "cancel", "raised"}

Environments ==
    [auto_push : BOOLEAN, create_branch : BOOLEAN, action : DirtyActions,
     response : Responses, create_ok : BOOLEAN, pop_ok : BOOLEAN,
     remote_ok : BOOLEAN, push_ok : BOOLEAN, issue_dir : BOOLEAN]

\* The prompt sets the flag whatever the answer was.
prompt_push_KeepFlag(response, push_ok) ==
    [invoked |-> FALSE, raised |-> FALSE, pushed |-> TRUE]

\* The push prompt: input(...).strip().lower(), push_branch on an affirmative
\* answer, and the flag set after push_branch returned.
prompt_push(response, push_ok) ==
    IF response.interrupted
    THEN [invoked |-> FALSE, raised |-> FALSE, pushed |-> FALSE]
    ELSE IF lower(strip(response.text)) \in Affirmative
    THEN [invoked |-> TRUE, raised |-> ~push_ok, pushed |-> push_ok]
    ELSE [invoked |-> FALSE, raised |-> FALSE, pushed |-> FALSE]

\* save_issue_json: writes issue.json when issue_dir is configured.
save_issue_json(issue_dir, branch_name, pushed) ==
    [written |-> issue_dir, branch |-> IF issue_dir THEN branch_name ELSE None,
     push |-> issue_dir /\ pushed]

NoJson == [written |-> FALSE, branch |-> None, push |-> FALSE]

Raised(calls) ==
    [raised |-> TRUE, branch |-> None, pushed |-> FALSE, json |-> NoJson, calls |-> calls]

Returns(branch, pushed, json, calls) ==
    [raised |-> FALSE, branch |-> branch, pushed |-> pushed, json |-> json, calls |-> calls]

full_workflow(e) ==
    LET created == <<"create_issue">>
        handled == created \o <<"handle_dirty">>
        branched == handled \o <<"create_branch">>
        restored == branched \o (IF e.action = "move_to_new" THEN <<"pop_stash">> ELSE <<>>)
        p == prompt_push(e.response, e.push_ok)
        asked == restored \o <<"get_remote_name", "input">>
                    \o (IF p.invoked THEN <<"push_branch">> ELSE <<>>)
    IN  IF ~e.create_branch THEN Returns(None, FALSE, NoJson, created)
        ELSE IF e.action = "raised" THEN Raised(handled)
        ELSE IF e.action = "cancel" THEN Returns(None, FALSE, NoJson, handled)
        ELSE IF ~e.create_ok THEN Raised(branched)
        ELSE IF e.action = "move_to_new" /\ ~e.pop_ok THEN Raised(restored)
        ELSE IF ~e.auto_push
        THEN Returns(IssueBranch, FALSE,
                     save_issue_json(e.issue_dir, IssueBranch, FALSE),
                     restored \o <<"save_issue_json">>)
        ELSE IF ~e.remote_ok THEN Raised(restored \o <<"get_remote_name">>)
        ELSE IF p.raised THEN Raised(asked)
        ELSE Returns(IssueBranch, p.pushed,
                     save_issue_json(e.issue_dir, IssueBranch, p.pushed),
                     asked \o <<"save_issue_json">>)

\* The baubau variant: no create_branch argument and no dirty-directory
\* prompt; the auto_push argument itself is reset and returned.
full_workflow_baubau(e) ==
    LET branched == <<"create_issue", "create_branch">>
        p == prompt_push(e.response, e.push_ok)
        asked == branched \o <<"get_remote_name", "input">>
                    \o (IF p.invoked THEN <<"push_branch">> ELSE <<>>)
    IN  IF ~e.create_ok THEN Raised(branched)
        ELSE IF ~e.auto_push
        THEN Returns(IssueBranch, FALSE,
                     save_issue_json(e.issue_dir, IssueBranch, FALSE),
                     branched \o <<"save_issue_json">>)
        ELSE IF ~e.remote_ok THEN Raised(branched \o <<"get_remote_name">>)
        ELSE IF p.raised THEN Raised(asked)
        ELSE Returns(IssueBranch, p.pushed,
                     save_issue_json(e.issue_dir, IssueBranch, p.pushed),
                     asked \o <<"save_issue_json">>)

CallFullWorkflow ==
    /\ arg.kind = "full_workflow"
    /\ ret = NoRet      \* one call, on the inputs drawn here
    /\ \E e \in Environments :
        Return("full_workflow", [env |-> e, got |-> full_workflow(e)])

CallFullWorkflowBaubau ==
    /\ arg.kind = "full_workflow"
    /\ ret = NoRet      \* one call, on the inputs drawn here
    /\ \E e \in Environments :
        /\ e.create_branch /\ e.action = "clean" /\ e.pop_ok
        /\ Return("full_workflow_baubau", [env |-> e, got |-> full_workflow_baubau(e)])

HelperNext ==
    \/ CallValidateBranchName
    \/ CallCreateBranch
    \/ CallPushBranch
    \/ CallCreateMergeRequest
    \/ CallSanitizeTitle
    \/ CallForcedCreateBranch
    \/ CallCleanSubject
    \/ CallIssueTitleSubject
    \/ CallMrSummarySubject
    \/ CallGetFirstCommitSubject
    \/ CallGetBranchDiffStats
    \/ CallGetRemoteName
    \/ CallExtractIssueIid
    \/ CallExtractFromDerived
    \/ CallHandleDirtyForMr
    \/ CallFullWorkflow
    \/ CallFullWorkflowBaubau

HelperSpec == HelperInit /\ [][HelperNext]_vars

\* The operations that are handed a branch name.
BranchOperations == {"create_branch", "push_branch", "create_merge_request", "forced_create_branch"}

(***************************************************************************)
(* C15.  Every operation that accepts a branch name (create_branch,        *)
(* push_branch, create_merge_request for its source branch, and the forced *)
(* workflow's branch creation) rejects a name that validate_branch_name    *)
(* refuses, with an error naming the required format, before it runs any   *)
(* git command or HTTP call.  (Fails: push_branch and forced_workflow      *)
(* never call validate_branch_name.)                                       *)
(***************************************************************************)
C15_InvalidNameRejectedFirst ==
    (ret.fn \in BranchOperations /\ ~validate_branch_name(ret.val.branch_name))
        => /\ ret.val.error \in FormatErrors
           /\ ret.val.calls = <<>>

\* What the help text and the specification say a valid name is: a non-empty
\* prefix, a '/', a digit right after it, then anything.
PrefixSlashDigit(x) ==
    \E i \in 2..(Len(x) - 1) : x[i] = "/" /\ x[i + 1] \in Digits

\* x holds no line break.
OneLine(x) == \A i \in 1..Len(x) : x[i] # Newline

\* validate_branch_name has been applied to arg.text.
Validated == ret.fn = "validate_branch_name"

C17_DerivedNameIsValid ==
    ret.fn = "forced_create_branch" => validate_branch_name(ret.val.branch_name)

\* The characters of a slug: [a-z0-9-].
SlugChars == Range(LowerLetters) \cup Digits \cup {"-"}

(***************************************************************************)
(* C18.  The title slug computed for the branch name (drop every character *)
(* other than ASCII letters, digits, whitespace and '-', trim, replace     *)
(* each whitespace run by one '-', truncate to 50, lowercase), which is    *)
(* computed from the title alone, contains only characters from [a-z0-9-]  *)
(* and has length at most 50, for every title.                             *)
(***************************************************************************)
C18_SlugShape ==
    ret.fn = "sanitize_title"
        => /\ Len(ret.val) <= SlugMax
           /\ \A i \in 1..Len(ret.val) : ret.val[i] \in SlugChars

\* A title longer than the cut, with an upper-case letter, a dropped
\* character and a blank in it, gives a slug of exactly 50 characters.
C18_Witness ==
    /\ ret.fn = "sanitize_title"
    /\ Len(arg.text) > SlugMax
    /\ Len(ret.val) = SlugMax
    /\ \E i, j, k \in 1..Len(arg.text) :
        arg.text[i] = "B" /\ arg.text[j] = "!" /\ arg.text[k] = " "

\* The places that strip a prefix, and what each does to a subject.
StripFunctions ==
    {"generate_requirements_summary", "update_issue_from_branch", "generate_mr_summary",
     "get_first_commit_subject"}

StripBy(fn, subject) ==
    CASE fn = "generate_requirements_summary" -> clean_subject(subject)
      [] fn = "update_issue_from_branch" -> issue_title_subject(subject)
      [] fn = "generate_mr_summary" -> mr_summary_subject(subject)
      [] fn = "get_first_commit_subject" -> get_first_commit_subject(subject)

(***************************************************************************)
(* C19.  Commit-message prefix stripping is idempotent: for every commit   *)
(* subject s, strip(strip(s)) = strip(s), in each place the code strips a  *)
(* prefix.  (Fails: what follows the first prefix may itself start with a  *)
(* prefix, as in 'feat:fix:x'.)                                            *)
(***************************************************************************)
C19_StripIdempotent ==
    ret.fn \in StripFunctions => StripBy(ret.fn, ret.val) = ret.val

(***************************************************************************)
(* C20.  Prefix stripping returns the trimmed remainder only when the text *)
(* before the first ':' is one of feat, fix, refactor, docs, style, test,  *)
(* chore; for every other subject (no ':' or an unrecognised prefix such   *)
(* as 'random: message') it returns the subject unchanged, in each place   *)
(* the code strips a prefix.  (Fails: generate_requirements_summary and    *)
(* update_issue_from_branch drop whatever precedes the first ':'.)         *)
(***************************************************************************)
C20_StripOnlyKnownTypes ==
    ret.fn \in StripFunctions
        => ret.val = IF HasColon(arg.text)
                        /\ SplitColon(arg.text)[1] \in ConventionalTypes
                     THEN strip(SplitColon(arg.text)[2])
                     ELSE arg.text

\* How many times the run attempted the call act.
Attempts(act) == Cardinality({i \in 1..Len(log) : log[i].act = act})

(***************************************************************************)
(* C26.  On a successful run, ai_updated is true if and only if changes    *)
(* were stashed and restored during the run (the working copy was dirty at *)
(* the stash step); in exactly that case the issue description was updated *)
(* once with the file summary, and otherwise no issue update call was      *)
(* made.  (Fails: the update is skipped when the list of dirty files came  *)
(* back empty, although the stash was taken and restored.)                 *)
(***************************************************************************)
C26_AiUpdatedIffRestored ==
    (Returned /\ result.success)
        => /\ result.ai_updated <=> (StashTaken /\ Did("stash_pop"))
           /\ result.ai_updated
                => (Attempts("update_issue") = 1 /\ result.issue_iid \in tracker.described)
           /\ ~result.ai_updated => ~Attempted("update_issue")

\* The n oldest entries of stash stack s (the top of the stack is its head).
Oldest(s, n) == SubSeq(s, Len(s) - n + 1, Len(s))

(***************************************************************************)
(* C27.  Stash entries that existed before a run are never popped, dropped *)
(* or altered by it: after the run ends, by success or by rollback, the    *)
(* pre-existing stash entries are the same and in the same order, for      *)
(* every initial working copy (clean, tracked changes, untracked-only      *)
(* changes).  (Fails: `git stash pop` pops whatever is on top, and the run *)
(* pops without having pushed when only untracked files were found.)       *)
(***************************************************************************)
C27_PriorStashKept ==
    Ended => /\ Len(git.stash) >= Len(pre.git.stash)
             /\ Oldest(git.stash, Len(pre.git.stash)) = pre.git.stash

\* The branch deletions rollback ran, successful or not.
Deleted(act) == {i \in 1..Len(log) : log[i].act = act /\ log[i].by = "rollback"}

\* Call number i was preceded by a successful forward call act.
DoneBefore(act, i) ==
    \E j \in 1..(i - 1) : log[j].act = act /\ log[j].ok /\ log[j].by = "forward"

(***************************************************************************)
(* C28.  rollback deletes a local branch only if this run's                *)
(* `git checkout -b` created it, and deletes a remote branch only if this  *)
(* run's push of it succeeded; when branch creation fails because a branch *)
(* of the derived name already exists, that pre-existing local branch and  *)
(* any remote branch of the same name are left untouched.                  *)
(***************************************************************************)
C28_RollbackDeletesOwnBranches ==
    /\ \A i \in Deleted("branch_D") : DoneBefore("checkout_b", i)
    /\ \A i \in Deleted("push_delete") : DoneBefore("push", i)
    /\ git.local \ {state.branch_name} = pre.git.local \ {state.branch_name}
    /\ git.remote \ {state.branch_name} = pre.git.remote \ {state.branch_name}
    /\ ~Did("checkout_b") => (git.local = pre.git.local /\ git.remote = pre.git.remote)

\* Branch creation failed on a branch that was there, locally and on the
\* remote, and rollback has run through.
C28_Witness ==
    /\ RolledBack
    /\ Failed("checkout_b")
    /\ state.branch_name \in pre.git.local \cap pre.git.remote
    /\ state.branch_name \in git.local \cap git.remote

\* The forward actions with a side effect.
SideEffecting ==
    {"create_issue", "stash_push", "checkout_base", "pull", "checkout_b", "push",
     "stash_pop", "update_issue"}

\* How many times the handler started rollback.
Rollbacks == Cardinality({i \in 1..Len(out) : out[i] = "rolling_back"})

\* Some forward step of the run failed.
ForwardFailed == locals.error # None

(***************************************************************************)
(* C30.  In every call of forced_workflow in which all external calls      *)
(* return, rollback is invoked exactly once if some forward step failed    *)
(* and never if the run succeeded; each forward side-effecting action is   *)
(* attempted at most once; and the call ends by returning exactly one      *)
(* WorkflowResult, built from a WorkflowState that no earlier call had     *)
(* touched.  (Fails: a call whose rollback raises returns no result.)      *)
(***************************************************************************)
C30_OneRollbackOneResult ==
    /\ \A a \in SideEffecting :
        Cardinality({i \in 1..Len(log) : log[i].act = a /\ log[i].by = "forward"}) <= 1
    /\ Rollbacks = (IF ForwardFailed THEN 1 ELSE 0)
    /\ pc = "validate" => state = NewWorkflowState
    /\ Ended => /\ ~result.none
                /\ result.success <=> ~ForwardFailed
                /\ result.issue_iid = state.issue_iid
    /\ ~Ended => result.none

\* The count a fragment stands for: its number, 0 when it is absent.
CountOf(n) == IF n = Absent THEN 0 ELSE n

(***************************************************************************)
(* C21.  The diff-stat parser returns files_changed, insertions and        *)
(* deletions equal to the numbers in the 'N file(s) changed',              *)
(* 'N insertion(s)(+)' and 'N deletion(s)(-)' fragments of the shortstat   *)
(* text, each defaulting to 0 when its fragment is absent; empty input     *)
(* yields all zeros and '3 files changed, 10 insertions(+), 2              *)
(* deletions(-)' yields 3, 10, 2.                                          *)
(***************************************************************************)
C21_DiffStatsParsed ==
    ret.fn = "get_branch_diff_stats"
        => /\ \A f, i, d \in MaybeCounts :
                arg.text = ShortStat(f, i, d)
                    => ret.val = [files_changed |-> CountOf(f), insertions |-> CountOf(i),
                                  deletions |-> CountOf(d)]
           /\ arg.text = <<>> => ret.val = ZeroStats
           /\ arg.text = ExampleShortStat
                => ret.val = [files_changed |-> 3, insertions |-> 10, deletions |-> 2]

\* A text with one file changed (singular), no insertion fragment and ten
\* deletions has been parsed.
C21_Witness ==
    /\ ret.fn = "get_branch_diff_stats"
    /\ arg.text = ShortStat(1, Absent, 10)
    /\ ret.val = [files_changed |-> 1, insertions |-> 0, deletions |-> 10]

(***************************************************************************)
(* C25.  get_remote_name returns the configured remote name if one is set; *)
(* otherwise 'origin' if it is among the repository's remotes, otherwise   *)
(* the first listed remote; and it raises 'No git remote found' when the   *)
(* repository has no remote at all: it never returns an empty name.        *)
(* (Fails: the empty output of `git remote` splits to [''], a non-empty    *)
(* list, so the function returns ''.)                                      *)
(***************************************************************************)
C25_RemoteNameChosen ==
    (ret.fn = "get_remote_name" /\ ret.val.exit0)
        => LET c == RemoteConfig(arg)
               r == ret.val.got
           IN  /\ c.remote_name # "" => (~r.raised /\ r.name = c.remote_name)
               /\ (c.remote_name = "" /\ "origin" \in Range(c.remotes))
                    => (~r.raised /\ r.name = "origin")
               /\ (c.remote_name = "" /\ "origin" \notin Range(c.remotes) /\ c.remotes # <<>>)
                    => (~r.raised /\ r.name = c.remotes[1])
               /\ (c.remote_name = "" /\ c.remotes = <<>>) => r.raised
               /\ ~r.raised => r.name # ""

(***************************************************************************)
(* C29.  For every issue code accepted by validate_issue_code, every title *)
(* and every positive issue id n, extracting the issue IID from the branch *)
(* name that the workflow derives (the first '/' followed by digits, as    *)
(* update_issue_from_branch and extract_issue_iid do) yields n; and for    *)
(* every name accepted by validate_branch_name the extraction succeeds.    *)
(***************************************************************************)
C29_IidReadBack ==
    /\ (ret.fn = "update_issue_from_branch_iid" /\ ret.val.accepted)
        => (ret.val.extracted.found /\ ret.val.extracted.iid = arg.iid)
    /\ (ret.fn = "extract_issue_iid" /\ validate_branch_name(arg.text)) => ret.val.found

\* An accepted code with a '-' in it, a title whose slug is a digit and a
\* two-digit id: the id is read back.
C29_Witness ==
    /\ ret.fn = "update_issue_from_branch_iid"
    /\ ret.val.accepted
    /\ arg.code = <<"V", "-", "1">> /\ arg.text = <<"1">> /\ arg.iid = 12
    /\ ret.val.extracted = [found |-> TRUE, iid |-> 12]

(***************************************************************************)
(* C23: when handle_dirty_working_directory_for_mr returns 'move_to_temp', *)
(* the original branch is checked out, the working copy is clean, and the  *)
(* temporary branch holds the changes that were uncommitted.               *)
(***************************************************************************)
C23_MoveToTempLeavesClean ==
    (ret.fn = "handle_dirty_working_directory_for_mr" /\ ret.val.got.action = "move_to_temp")
        => /\ ret.val.got.after.git.branch = ret.val.before.git.branch
           /\ StatusLines(ret.val.got.after.git) = {}
           /\ ret.val.got.after.held[TempBranch] = StatusLines(ret.val.before.git)

FullWorkflows == {"full_workflow", "full_workflow_baubau"}

(***************************************************************************)
(* C24: when full_workflow returns, in either variant, 'pushed' is true    *)
(* only if push_branch was invoked and returned in that call, the 'push'   *)
(* field of a written issue.json equals the flag, and the flag is false    *)
(* when auto_push is off, when the answer to the prompt is not an          *)
(* affirmative one or the prompt is interrupted, and when branch creation  *)
(* is cancelled or skipped (then no issue.json is written).                *)
(***************************************************************************)
C24_PushedOnlyAfterPush ==
    (ret.fn \in FullWorkflows /\ ~ret.val.got.raised)
        => LET e == ret.val.env
               r == ret.val.got
           IN  /\ r.pushed => ("push_branch" \in Range(r.calls) /\ e.push_ok)
               /\ r.json.written => r.json.push = r.pushed
               /\ r.json.push => r.pushed
               /\ ~e.auto_push => ~r.pushed
               /\ (e.response.interrupted \/ e.response.text \in NoAnswers) => ~r.pushed
               /\ (ret.fn = "full_workflow" /\ (~e.create_branch \/ e.action = "cancel"))
                    => (~r.pushed /\ ~r.json.written /\ r.branch = None)

\* A call that pushed and wrote issue.json, and one whose prompt was declined.
C24_Witness ==
    /\ ret.fn \in FullWorkflows
    /\ ~ret.val.got.raised
    /\ ret.val.got.pushed
    /\ ret.val.got.json.written
    /\ ret.val.got.json.push

(***************************************************************************)
(* A third specification: two runs of forced_workflow on one checkout,     *)
(* from the dirty check of Phase 2 to the stash pop of Phase 5, and the    *)
(* rollback of a run whose git command fails.  The runs share git; each    *)
(* has its own WorkflowState, locals and position (state, locals and pc    *)
(* are functions of the run).  Every step is one git command, and a        *)
(* command fails only when the working copy makes it fail.  meta holds,    *)
(* for each entry of the stash, the run that pushed it (NoRun for an       *)
(* entry that was there before); log holds one record per stash pop.       *)
(***************************************************************************)
Runs == {1, 2}
NoRun == 0
Other(r) == IF r = 1 THEN 2 ELSE 1

PairSteps ==
    <<"status", "dirty_files", "stash", "original_branch", "checkout_base", "pull",
      "checkout_b", "push", "stash_pop", "done">>
PairRollbackSteps ==
    <<"rb_restash", "rb_delete_remote", "rb_delete_local", "rb_checkout_original",
      "rb_pop_stash", "failed">>

Following(steps, p) == steps[(CHOOSE i \in 1..Len(steps) : steps[i] = p) + 1]
AfterStep(p) == Following(PairSteps, p)
AfterUndo(p) == Following(PairRollbackSteps, p)

PairRepositories ==
    {[branch |-> b, local |-> {BaseBranch, OtherBranch}, remote |-> {},
      dirty |-> d, untracked |-> u, stash |-> s] :
        b \in {BaseBranch, OtherBranch}, d \in {{}, ModifiedFiles},
        u \in SUBSET UntrackedFiles, s \in {<<>>, <<PriorStashEntry>>}}

PairInit ==
    /\ git \in PairRepositories
    /\ meta = [i \in 1..Len(git.stash) |-> NoRun]
    /\ state = [r \in Runs |-> [NewWorkflowState EXCEPT !.issue_iid = r]]
    /\ locals = [r \in Runs |-> [is_dirty |-> FALSE, dirty_files |-> {}]]
    /\ pc = [r \in Runs |-> "status"]
    /\ log = <<>>
    /\ pre = [git |-> git, tracker |-> [count |-> 0, described |-> {}, closed |-> {}]]
    /\ cfg = IdleConfig
    /\ tracker = [count |-> 2, described |-> {}, closed |-> {}]
    /\ result = NoResult
    /\ out = <<>>
    /\ arg = NoArg
    /\ ret = NoRet

\* Mutant: a pop that restores only an entry the run itself pushed, and
\* nothing when the top entry is not its own.
PairStashPop_Own(g, owners, r) ==
    IF Head(owners) = r
    THEN [git |-> GitStashPop(g), owners |-> Tail(owners), took |-> r]
    ELSE [git |-> g, owners |-> owners, took |-> NoRun]

\* `git stash pop` on the shared stack: the top entry, whoever pushed it.
PairStashPop(g, owners, r) ==
    [git |-> GitStashPop(g), owners |-> Tail(owners), took |-> Head(owners)]

PopRecord(r, phase, p) ==
    [run |-> r, phase |-> phase, stack |-> meta, took |-> p.took,
     pushed |-> has(state[r], "stashed") /\ state[r].stashed_files # {}]

PairUnchanged == UNCHANGED <<cfg, tracker, result, out, pre, arg, ret>>

\* is_dirty = not self.is_working_directory_clean()
PairCheckDirty(r) ==
    /\ pc[r] = "status"
    /\ LET is_dirty == StatusLines(git) # {}
       IN  /\ locals' = [locals EXCEPT ![r].is_dirty = is_dirty]
           /\ pc' = [pc EXCEPT ![r] = IF is_dirty THEN "dirty_files" ELSE "original_branch"]
           /\ state' = IF is_dirty THEN state ELSE [state EXCEPT ![r].stashed = FALSE]
    /\ UNCHANGED <<git, meta, log>>
    /\ PairUnchanged

\* dirty_files = self.get_dirty_files()
PairGetDirtyFiles(r) ==
    /\ pc[r] = "dirty_files"
    /\ locals' = [locals EXCEPT ![r].dirty_files = StatusLines(git)]
    /\ pc' = [pc EXCEPT ![r] = AfterStep("dirty_files")]
    /\ UNCHANGED <<git, meta, state, log>>
    /\ PairUnchanged

\* git stash push -m "Auto-stash for issue #iid"
PairStash(r) ==
    /\ pc[r] = "stash"
    /\ git' = GitStashPush(git)
    /\ meta' = IF git.dirty = {} THEN meta ELSE <<r>> \o meta
    /\ state' = [state EXCEPT ![r] = mark([@ EXCEPT !.stashed = TRUE,
                                                    !.stashed_files = locals[r].dirty_files],
                                          "stashed")]
    /\ pc' = [pc EXCEPT ![r] = AfterStep("stash")]
    /\ UNCHANGED <<locals, log>>
    /\ PairUnchanged

\* state.original_branch = self.get_current_branch()
PairGetOriginalBranch(r) ==
    /\ pc[r] = "original_branch"
    /\ state' = [state EXCEPT ![r].original_branch = git.branch]
    /\ pc' = [pc EXCEPT ![r] = AfterStep("original_branch")]
    /\ UNCHANGED <<git, meta, locals, log>>
    /\ PairUnchanged

\* git checkout base_branch
PairCheckoutBase(r) ==
    /\ pc[r] = "checkout_base"
    /\ git' = GitCheckout(git, BaseBranch)
    /\ state' = [state EXCEPT ![r] = mark(@, "switched_to_base")]
    /\ pc' = [pc EXCEPT ![r] = AfterStep("checkout_base")]
    /\ UNCHANGED <<meta, locals, log>>
    /\ PairUnchanged

\* git pull remote_name base_branch
PairPull(r) ==
    /\ pc[r] = "pull"
    /\ state' = [state EXCEPT ![r] = mark(@, "pulled_latest")]
    /\ pc' = [pc EXCEPT ![r] = AfterStep("pull")]
    /\ UNCHANGED <<git, meta, locals, log>>
    /\ PairUnchanged

\* state.branch_name = branch_name; git checkout -b branch_name
PairCreateBranch(r) ==
    /\ pc[r] = "checkout_b"
    /\ LET branch_name == DerivedBranch(state[r].issue_iid)
           named == [state[r] EXCEPT !.branch_name = branch_name]
       IN  IF CanCreateBranch(git, branch_name)
           THEN /\ git' = GitCheckoutNew(git, branch_name)
                /\ state' = [state EXCEPT ![r] = mark(named, "branch_created")]
                /\ pc' = [pc EXCEPT ![r] = AfterStep("checkout_b")]
           ELSE /\ git' = git
                /\ state' = [state EXCEPT ![r] = named]
                /\ pc' = [pc EXCEPT ![r] = "rb_restash"]
    /\ UNCHANGED <<meta, locals, log>>
    /\ PairUnchanged

\* git push -u remote_name branch_name
PairPush(r) ==
    /\ pc[r] = "push"
    /\ git' = GitPush(git, state[r].branch_name)
    /\ state' = [state EXCEPT ![r] = mark(@, "pushed")]
    /\ pc' = [pc EXCEPT ![r] = AfterStep("push")]
    /\ UNCHANGED <<meta, locals, log>>
    /\ PairUnchanged

\* if state.stashed: git stash pop
PairStashPopStep(r) ==
    /\ pc[r] = "stash_pop"
    /\ IF ~state[r].stashed
       THEN /\ pc' = [pc EXCEPT ![r] = AfterStep("stash_pop")]
            /\ UNCHANGED <<git, meta, state, log>>
       ELSE IF CanStashPop(git)
       THEN LET p == PairStashPop(git, meta, r)
            IN  /\ git' = p.git
                /\ meta' = p.owners
                /\ log' = Append(log, PopRecord(r, "forward", p))
                /\ state' = [state EXCEPT ![r] = mark(@, "stash_popped")]
                /\ pc' = [pc EXCEPT ![r] = AfterStep("stash_pop")]
       ELSE /\ pc' = [pc EXCEPT ![r] = "rb_restash"]
            /\ UNCHANGED <<git, meta, state, log>>
    /\ UNCHANGED locals
    /\ PairUnchanged

\* rollback, Step 5: git stash push -m "Rollback: re-stashing changes"
PairRollbackRestash(r) ==
    /\ pc[r] = "rb_restash"
    /\ IF GuardRestash(state[r])
       THEN /\ git' = GitStashPush(git)
            /\ meta' = IF git.dirty = {} THEN meta ELSE <<r>> \o meta
       ELSE UNCHANGED <<git, meta>>
    /\ pc' = [pc EXCEPT ![r] = AfterUndo("rb_restash")]
    /\ UNCHANGED <<state, locals, log>>
    /\ PairUnchanged

\* rollback, Step 4: git push remote --delete branch_name
PairRollbackDeleteRemote(r) ==
    /\ pc[r] = "rb_delete_remote"
    /\ git' = IF GuardDeleteRemote(state[r]) /\ CanDeleteRemote(git, state[r].branch_name)
              THEN GitPushDelete(git, state[r].branch_name)
              ELSE git
    /\ pc' = [pc EXCEPT ![r] = AfterUndo("rb_delete_remote")]
    /\ UNCHANGED <<meta, state, locals, log>>
    /\ PairUnchanged

\* rollback, Step 3: switch away if the branch is checked out, git branch -D
PairRollbackDeleteLocal(r) ==
    /\ pc[r] = "rb_delete_local"
    /\ git' = IF GuardDeleteLocal(state[r])
              THEN LET moved == IF git.branch = state[r].branch_name
                                    /\ CanCheckout(git, SwitchTo(state[r]))
                                THEN GitCheckout(git, SwitchTo(state[r]))
                                ELSE git
                   IN  IF CanDeleteLocal(moved, state[r].branch_name)
                       THEN GitBranchDelete(moved, state[r].branch_name)
                       ELSE moved
              ELSE git
    /\ pc' = [pc EXCEPT ![r] = AfterUndo("rb_delete_local")]
    /\ UNCHANGED <<meta, state, locals, log>>
    /\ PairUnchanged

\* rollback, Step 2: git checkout original_branch
PairRollbackCheckoutOriginal(r) ==
    /\ pc[r] = "rb_checkout_original"
    /\ git' = IF /\ GuardCheckoutOriginal(state[r])
                 /\ git.branch # state[r].original_branch
                 /\ CanCheckout(git, state[r].original_branch)
              THEN GitCheckout(git, state[r].original_branch)
              ELSE git
    /\ pc' = [pc EXCEPT ![r] = AfterUndo("rb_checkout_original")]
    /\ UNCHANGED <<meta, state, locals, log>>
    /\ PairUnchanged

\* rollback, Step 1: git stash pop
PairRollbackPopStash(r) ==
    /\ pc[r] = "rb_pop_stash"
    /\ IF GuardPopStash(state[r]) /\ CanStashPop(git)
       THEN LET p == PairStashPop(git, meta, r)
            IN  /\ git' = p.git
                /\ meta' = p.owners
                /\ log' = Append(log, PopRecord(r, "rollback", p))
       ELSE UNCHANGED <<git, meta, log>>
    /\ pc' = [pc EXCEPT ![r] = AfterUndo("rb_pop_stash")]
    /\ UNCHANGED <<state, locals>>
    /\ PairUnchanged

PairNext ==
    \E r \in Runs :
        \/ PairCheckDirty(r)
        \/ PairGetDirtyFiles(r)
        \/ PairStash(r)
        \/ PairGetOriginalBranch(r)
        \/ PairCheckoutBase(r)
        \/ PairPull(r)
        \/ PairCreateBranch(r)
        \/ PairPush(r)
        \/ PairStashPopStep(r)
        \/ PairRollbackRestash(r)
        \/ PairRollbackDeleteRemote(r)
        \/ PairRollbackDeleteLocal(r)
        \/ PairRollbackCheckoutOriginal(r)
        \/ PairRollbackPopStash(r)

PairSpec == PairInit /\ [][PairNext]_vars

PairEnded(r) == pc[r] \in {"done", "failed"}
Pops == {log[i] : i \in 1..Len(log)}

(***************************************************************************)
(* C22: two interleaved runs share one stash stack and one checked-out     *)
(* branch, and nothing keeps them apart.  Every stash pop restores the     *)
(* entry on top of the stack, whichever run pushed it; a run whose pop     *)
(* restored the other run's entry keeps the other from getting it back;    *)
(* and while the other run has not taken a step, a pop restores only the   *)
(* run's own entry or one that was there before.                           *)
(***************************************************************************)
C22_PopRestoresTopOfSharedStash ==
    /\ \A e \in Pops : e.took = Head(e.stack)
    /\ \A e \in Pops :
        e.took = Other(e.run) => ~\E f \in Pops : f.run = e.took /\ f.took = e.took
    /\ \A r \in Runs :
        pc[Other(r)] = "status" => \A e \in Pops : e.run = r => e.took \in {r, NoRun}

\* Both runs have ended; one run's pop restored the entry the other run had
\* pushed, and a run that reported success ended with another branch checked
\* out than the one it created.
C22_Witness ==
    /\ \A r \in Runs : PairEnded(r)
    /\ \E e \in Pops : e.took = Other(e.run)
    /\ \E r \in Runs : pc[r] = "done" /\ git.branch # state[r].branch_name

=============================================================================
